---- MODULE Spec2Model ----
(***************************************************************************)
(* A model of the Halo lighting console (robmorgan/halo, Go).              *)
(*                                                                         *)
(* Spec       the cue-list console of main.go: the cuelist.Master that     *)
(*            plays the default cue list, the goroutines it starts for     *)
(*            every frame action, the fixture state manager, the DMX       *)
(*            state behind its mutex and the SendDMXWorker output loop.    *)
(* SpecMulti  the bubbletea console of multicue/: key and tick handlers    *)
(*            of model.Update and the View.                                *)
(* SpecFade   calls of the interpolating Fixture.SetState, one at a time.  *)
(* SpecDMX    the fixture layer as a library: SetDMXState, the SetState    *)
(*            without fading, and Set and Get of a dmx.Universe.           *)
(* SpecPatch  NewManager, called with a patch.                             *)
(* SpecMetronome  rhythm.Metronome: SetTempo and the clock.                *)
(* SpecFollow the cue list of the master against the clock.                *)
(* SpecStep   a legacy effect.Effect with a step offset, tick after tick.  *)
(* SpecGroup  the fixtures of a manager, traversed.                        *)
(* SpecSend   SendDMXWorker with a client whose SendDmx can fail.          *)
(* SpecFix    the intensity/colour setters of a fixture.Fixture.           *)
(* SpecEase   a legacy effect.Effect with an easing function, updated.     *)
(* FairSpecRun  Run of main.go from its enqueued cues to the return of     *)
(*            wg.Wait, with the scheduling of its goroutines.              *)
(* SpecIDs    EnQueueCue with cues whose ID the caller has set.            *)
(* SpecLoop   the engine.HaloLoop of legacy/ and its goroutines.           *)
(***************************************************************************)
EXTENDS Integers, Sequences, FiniteSets, TLC

VARIABLES
    \* ---- cuelist.Master and its default CueList
    Cues,           \* cl.Cues: the queue of enqueued cues
    ActiveCue,      \* cl.ActiveCue: the cue being processed, or NoCue
    ProcessedCues,  \* cl.ProcessedCues
    currentID,      \* clm.currentID
    clpc,           \* position of the ProcessCueList goroutine
    frameIdx,       \* index of the next frame ProcessCue hands to ProcessFrame
    enqCalls,       \* number of EnQueueCue calls made so far
    wg,             \* the counter of the sync.WaitGroup of Run
    \* ---- context and goroutines
    ctxDone,        \* the context of Run has been cancelled
    pfa,            \* running ProcessFrameAction goroutines, by action ID
    ss,             \* running Fixture.SetState goroutines, by action ID
    mainDone,       \* Run has returned (the process is gone)
    \* ---- fixture.StateManager
    states,         \* m.states: fixture name -> State
    universes,      \* m.dmxState.universes: universe -> channel -> byte
    dmxLock,        \* holder of m.dmxState.lock (an action ID) or Unlocked
    \* ---- SendDMXWorker and the OLA client
    workerpc,       \* position of the SendDMXWorker goroutine
    wcur,           \* the universe whose slice the worker holds
    sent,           \* last frame OLA received, per universe
    \* ---- multicue console (bubbletea model)
    build,          \* which Update of multicue/ is compiled in
    pendingCues,    \* m.cueMaster.pendingCues
    activeCues,     \* m.cueMaster.activeCues
    processedCues,  \* m.cueMaster.processedCues
    bpm,            \* m.bpm
    progress,       \* m.progress, in tenths
    quitting,       \* m.quitting
    sinceGo,        \* observer: tick messages received since the last go key
    \* ---- one caller of the fading Fixture.SetState
    fade,           \* its locals (pc, fixture, target, currentState, numSteps, x, intVal)
                    \* and how many calls there have been
    \* ---- the process
    log,            \* what the loggers have been handed (level and message)
    panicked,       \* the Go runtime has panicked
    \* ---- one sequential caller of the fixture layer and of the metronome
    last,           \* its last call: function, arguments, result
    uni,            \* dmx.Universe.Channels
    config,         \* config.HaloConfig.PatchedFixtures handed to NewManager
    manager,        \* what NewManager returned
    metro,          \* rhythm.Metronome: startTime and tempo
    now,            \* time.Now(), in nanoseconds
    effect,         \* an Effect of legacy/: FixtureNames, StepOffset, stepIndex,
                    \* stepTime, targetFixtureNames
    fix,            \* fixture.Fixture of the intensity/colour API: intensity, color,
                    \* needsUpdate
    gl              \* engine.HaloLoop: its startLoop goroutines with their tickers,
                    \* and the caller of Start, Stop, Restart and SetTickRate

masterVars == <<Cues, ActiveCue, ProcessedCues, currentID, clpc, frameIdx, enqCalls, wg,
                ctxDone, pfa, ss, mainDone, states, universes, dmxLock,
                workerpc, wcur, sent>>
multiVars == <<build, pendingCues, activeCues, processedCues, bpm, progress, quitting,
               sinceGo>>
fadeVars == <<fade>>
legacyVars == <<effect, fix, gl>>
apiVars == <<last, uni, config, manager, metro, now, legacyVars>>
vars == <<masterVars, multiVars, fadeVars, apiVars, log, panicked>>

\* ------------------------------------------------------------------ bounds
\* how many EnQueueCue calls a behaviour makes
MaxEnqueued == 2
\* how many tick messages the console receives
MaxTicks == 6
\* how far the [ and ] keys move the tempo from where it starts
MaxBpmSteps == 1
\* how many times the fading SetState is called, and the longest fade in ticks
MaxFadeCalls == 2
MaxFadeSteps == 2

\* ------------------------------------------------------- program constants
\* fixture/dmx_writer.go: the highest channel set() accepts, and the buffer size
DMXChannels == 255

statusEnqueued == "enqueued"
statusActive == "active"
statusProcessed == "processed"

NoCue == [ID |-> -1]
Unlocked == 0

\* profile/profile.go, fixture profile channel maps of config/profiles.go
ChannelTypeIntensity == "channel:type:intensity"
ChannelTypeRed == "channel:type:red"
ChannelTypeGreen == "channel:type:green"
ChannelTypeBlue == "channel:type:blue"
ChannelTypePan == "channel:type:pan"
ChannelTypeTilt == "channel:type:tilt"

\* initializeFixtureProfiles: the profile of the PARs
FixtureProfiles ==
    [p \in {"shehds-par"} |->
        (ChannelTypeIntensity :> 1) @@ (ChannelTypeRed :> 2) @@
        (ChannelTypeGreen :> 3) @@ (ChannelTypeBlue :> 4)]

\* PatchFixtures: the two front middle PARs
PatchedFixtures ==
    ("left_middle_par" :> [Address |-> 1, Universe |-> 1, Profile |-> "shehds-par"]) @@
    ("right_middle_par" :> [Address |-> 9, Universe |-> 1, Profile |-> "shehds-par"])

FixtureNames == DOMAIN PatchedFixtures

\* ------------------------------------------------------------ fixture.State
RGBBlack == <<0, 0, 0>>
RGBRed == <<255, 0, 0>>
RGBWhite == <<255, 255, 255>>

\* the zero value of fixture.State
ZeroState == [Intensity |-> 0, RGB |-> RGBBlack, Strobe |-> 0, Pan |-> 0, Tilt |-> 0]

\* TargetState.ToState: Strobe is not copied
ToState(t) ==
    [Intensity |-> t.Intensity, RGB |-> t.RGB, Strobe |-> 0, Pan |-> t.Pan, Tilt |-> t.Tilt]

\* ------------------------------------------------------------- show: cues
FrameAction(name, st, d) ==
    [ID |-> 0, FixtureName |-> name, Fixture |-> "nil",
     NewState |-> [Intensity |-> st.Intensity, RGB |-> st.RGB, Strobe |-> st.Strobe,
                   Pan |-> st.Pan, Tilt |-> st.Tilt, Duration |-> d]]

Frame(actions) == [ID |-> 0, Actions |-> actions]

\* no effect has been made, no fixture of the intensity/colour API
LegacyIdle ==
    /\ effect = [made |-> FALSE]
    /\ fix = [made |-> FALSE]
    /\ gl = [made |-> FALSE]

\* the zero value of cuelist.Cue with its frames: no follow time, never started
Cue(frames) ==
    [ID |-> 0, Status |-> "", Frames |-> frames, FollowTime |-> 0, StartedAt |-> 0,
     FinishedAt |-> 0]

\* main.go clearFixtures: one frame, State{Intensity: 0} on every listed fixture,
\* 30 ms
clearFixtures(fixtureList) ==
    Cue(<<Frame([x \in 1..Len(fixtureList) |->
                FrameAction(fixtureList[x], ZeroState, 30)])>>)

\* main.go cycleFixtureStates: numFrames frames; in each, one fixture of the list
\* in turn gets stateB and the others stateA
cycleFixtureStates(fixtureList, stateA, stateB, duration, numFrames) ==
    Cue([x \in 1..numFrames |->
            Frame([y \in 1..Len(fixtureList) |->
                FrameAction(fixtureList[y],
                            IF y - 1 = (x - 1) % Len(fixtureList) THEN stateB ELSE stateA,
                            duration \div numFrames)])])

\* Run: the two states the middle PARs are cycled through
stateA == [ZeroState EXCEPT !.Intensity = 200, !.RGB = RGBWhite]
stateB == [ZeroState EXCEPT !.Intensity = 0, !.RGB = RGBWhite]

\* the IDs a caller may put on a cue: 0 asks the master for one
CallerIDs == {0}

\* the cues EnQueueCue is called with: the builders of main.go on one patched
\* fixture, and a cue whose frame names a fixture nobody patched next to one
\* that is
CueInputs ==
    {[c EXCEPT !.ID = id] :
        c \in {cycleFixtureStates(<<"left_middle_par">>, stateA, stateB, 680, 1),
               clearFixtures(<<"left_middle_par">>),
               clearFixtures(<<"unpatched_par", "left_middle_par">>)},
        id \in CallerIDs}

\* ------------------------------------------------ fixture.StateManager
\* StateManager.GetByName: the fixture, or nil
GetByName(name) == IF name \in FixtureNames THEN name ELSE "nil"

\* getChannelIndexForAttribute: 1-indexed, 0 when the profile has no such channel
getChannelIndexForAttribute(p, attrName) ==
    IF attrName \in DOMAIN p THEN p[attrName] ELSE 0

\* Fixture.getChannelIDForAttributes, for one attribute: 0 when the profile is unknown
getChannelIDForAttributes(f, attr) ==
    IF PatchedFixtures[f].Profile \in DOMAIN FixtureProfiles
    THEN PatchedFixtures[f].Address
         + getChannelIndexForAttribute(FixtureProfiles[PatchedFixtures[f].Profile], attr) - 1
    ELSE 0

\* make([]byte, 255): all zero; a frame is kept as its non-zero channels
ZeroFrame == [c \in {} |-> 0]

dmxOperation(u, c, v) == [universe |-> u, channel |-> c, value |-> v]

\* DMXState.initializeUniverse
initializeUniverse(us, universe) ==
    IF universe \in DOMAIN us THEN us ELSE (universe :> ZeroFrame) @@ us

\* DMXState.set without its range check
channelAlwaysInRange(channel) == channel = channel

\* the channel range check at the head of the loop of DMXState.set
channelInRange(channel) == ~(channel < 1 \/ channel > DMXChannels)

\* one iteration of the loop of DMXState.set that passed the range check:
\* byte(value) keeps the low 8 bits
setOne(us, op) ==
    LET init == initializeUniverse(us, op.universe)
        old == init[op.universe]
        b == op.value % 256
        dom == (DOMAIN old \ {op.channel}) \cup (IF b = 0 THEN {} ELSE {op.channel})
    IN [init EXCEPT ![op.universe] = [c \in dom |-> IF c = op.channel THEN b ELSE old[c]]]

\* the dmxOperations of the calls Fixture.SetState makes, in order
setIntensityToStateAndDMX(f, value) ==
    <<dmxOperation(PatchedFixtures[f].Universe,
                   getChannelIDForAttributes(f, ChannelTypeIntensity), value)>>

blindlySetRGBToStateAndDMX(f, color) ==
    <<dmxOperation(PatchedFixtures[f].Universe,
                   getChannelIDForAttributes(f, ChannelTypeRed), color[1]),
      dmxOperation(PatchedFixtures[f].Universe,
                   getChannelIDForAttributes(f, ChannelTypeGreen), color[2]),
      dmxOperation(PatchedFixtures[f].Universe,
                   getChannelIDForAttributes(f, ChannelTypeBlue), color[3])>>

setPositionToStateAndDMX(f, pan, tilt) ==
    <<dmxOperation(PatchedFixtures[f].Universe,
                   getChannelIDForAttributes(f, ChannelTypePan), pan),
      dmxOperation(PatchedFixtures[f].Universe,
                   getChannelIDForAttributes(f, ChannelTypeTilt), tilt)>>

\* Fixture.SetState is four calls in a row; a goroutine's .call says which it is in
SetStateCalls == <<"intensity", "rgb", "stateRGB", "position", "stateFinal", "done">>

NextCall(call) ==
    SetStateCalls[(CHOOSE i \in 1..Len(SetStateCalls) : SetStateCalls[i] = call) + 1]

\* the operations of the SetDMXState call a SetState goroutine is in
OpsOf(g) ==
    CASE g.call = "intensity" -> setIntensityToStateAndDMX(g.fixture, g.target.Intensity)
      [] g.call = "rgb" -> blindlySetRGBToStateAndDMX(g.fixture, g.target.RGB)
      [] g.call = "position" ->
            setPositionToStateAndDMX(g.fixture, g.target.Pan, g.target.Tilt)
      [] OTHER -> << >>

\* ------------------------------------------------------- cuelist.Master
\* the ID fields of a cue in the order AddIDsRecursively visits them
IDSlots(c) ==
    LET RECURSIVE walk(_)
        walk(x) == IF x > Len(c.Frames) THEN << >>
                   ELSE <<c.Frames[x].ID>>
                        \o [y \in 1..Len(c.Frames[x].Actions) |-> c.Frames[x].Actions[y].ID]
                        \o walk(x + 1)
    IN <<c.ID>> \o walk(1)

\* how many IDs getNextIDForUse hands out for the first n slots
FreshBefore(slots, n) == Cardinality({j \in 1..n : slots[j] = 0})

\* the slot of frame x (y = 0) or of its action y
SlotOf(c, x, y) ==
    LET RECURSIVE before(_)
        before(k) == IF k = 0 THEN 0 ELSE 1 + Len(c.Frames[k].Actions) + before(k - 1)
    IN 1 + before(x - 1) + 1 + y

\* Master.AddIDsRecursively with clm.currentID = n: the cue it leaves
AddIDsRecursively(c, n) ==
    LET slots == IDSlots(c)
        idAt(i) == IF slots[i] = 0 THEN n + FreshBefore(slots, i - 1) ELSE slots[i]
    IN [ID |-> idAt(1),
        Status |-> statusEnqueued,
        FollowTime |-> c.FollowTime,
        StartedAt |-> c.StartedAt,
        FinishedAt |-> c.FinishedAt,
        Frames |-> [x \in 1..Len(c.Frames) |->
            [ID |-> idAt(SlotOf(c, x, 0)),
             Actions |-> [y \in 1..Len(c.Frames[x].Actions) |->
                [c.Frames[x].Actions[y] EXCEPT
                    !.ID = idAt(SlotOf(c, x, y)),
                    !.Fixture = GetByName(c.Frames[x].Actions[y].FixtureName)]]]]]

\* Master.EnQueueCue: under cl.lock, assign IDs and append
EnQueueCue(c) ==
    /\ ~mainDone
    /\ enqCalls < MaxEnqueued
    /\ enqCalls' = enqCalls + 1
    /\ Cues' = Append(Cues, AddIDsRecursively(c, currentID))
    /\ currentID' = currentID + FreshBefore(IDSlots(c), Len(IDSlots(c)))
    /\ UNCHANGED <<wg, ActiveCue, ProcessedCues, clpc, frameIdx, ctxDone, pfa, ss, mainDone,
                   states, universes, dmxLock, workerpc, wcur, sent,
                   multiVars, fadeVars, apiVars, log, panicked>>

\* CueList.Go: returns true, touches nothing
CueListGo == UNCHANGED vars

\* ProcessCueList's dequeue taking the cue submitted last instead of the head
CueListDequeueLast ==
    /\ ~mainDone
    /\ clpc = "select"
    /\ Len(Cues) > 0
    /\ Cues' = SubSeq(Cues, 1, Len(Cues) - 1)
    /\ ActiveCue' = [Cues[Len(Cues)] EXCEPT !.Status = statusActive, !.StartedAt = now]
    /\ clpc' = "cue"
    /\ frameIdx' = 1
    /\ wg' = wg + 1 + Len(Cues[Len(Cues)].Frames)
    /\ UNCHANGED <<ProcessedCues, currentID, enqCalls, ctxDone, pfa, ss, mainDone,
                   states, universes, dmxLock, workerpc, wcur, sent,
                   multiVars, fadeVars, apiVars, log, panicked>>

\* ProcessCueList's dequeue reading the head of the queue without taking it off
CueListDequeueKeepsHead ==
    /\ ~mainDone
    /\ clpc = "select"
    /\ Len(Cues) > 0
    /\ Cues' = Cues
    /\ ActiveCue' = [Head(Cues) EXCEPT !.Status = statusActive, !.StartedAt = now]
    /\ clpc' = "cue"
    /\ frameIdx' = 1
    /\ wg' = wg + 1 + Len(Head(Cues).Frames)
    /\ UNCHANGED <<ProcessedCues, currentID, enqCalls, ctxDone, pfa, ss, mainDone,
                   states, universes, dmxLock, workerpc, wcur, sent,
                   multiVars, fadeVars, apiVars, log, panicked>>

\* ProcessCueList, timer branch, a cue is queued: deQueueNextCue, mark it active
\* and enter ProcessCue
CueListDequeue ==
    /\ ~mainDone
    /\ clpc = "select"
    /\ Len(Cues) > 0
    /\ Cues' = Tail(Cues)
    /\ ActiveCue' = [Head(Cues) EXCEPT !.Status = statusActive, !.StartedAt = now]
    /\ clpc' = "cue"
    /\ frameIdx' = 1
    /\ wg' = wg + 1 + Len(Head(Cues).Frames)
    /\ UNCHANGED <<ProcessedCues, currentID, enqCalls, ctxDone, pfa, ss, mainDone,
                   states, universes, dmxLock, workerpc, wcur, sent,
                   multiVars, fadeVars, apiVars, log, panicked>>

\* ProcessCue -> ProcessFrame of the next frame: start a ProcessFrameAction
\* goroutine per action, then sleep for the frame's duration
ProcessFrame ==
    /\ ~mainDone
    /\ clpc = "cue"
    /\ frameIdx <= Len(ActiveCue.Frames)
    /\ LET acts == ActiveCue.Frames[frameIdx].Actions
           started == [id \in {acts[x].ID : x \in 1..Len(acts)} |->
                         LET a == CHOOSE a \in {acts[x] : x \in 1..Len(acts)} : a.ID = id
                         IN [FixtureName |-> a.FixtureName, NewState |-> a.NewState,
                             pc |-> "start"]]
       IN pfa' = started @@ pfa
    /\ frameIdx' = frameIdx + 1
    /\ wg' = wg + Len(ActiveCue.Frames[frameIdx].Actions) - (IF frameIdx > 1 THEN 1 ELSE 0)
    /\ UNCHANGED <<Cues, ActiveCue, ProcessedCues, currentID, clpc, enqCalls, ctxDone, ss,
                   mainDone, states, universes, dmxLock, workerpc, wcur, sent,
                   multiVars, fadeVars, apiVars, log, panicked>>

\* ProcessCueList's cleanup with its status assignment left out
CueListFinishKeepsStatus ==
    /\ ~mainDone
    /\ clpc = "cue"
    /\ frameIdx > Len(ActiveCue.Frames)
    /\ ProcessedCues' = Append(ProcessedCues, [ActiveCue EXCEPT !.FinishedAt = now])
    /\ ActiveCue' = NoCue
    /\ clpc' = "select"
    /\ wg' = wg - (IF Len(ActiveCue.Frames) > 0 THEN 2 ELSE 1)
    /\ UNCHANGED <<Cues, currentID, frameIdx, enqCalls, ctxDone, pfa, ss, mainDone,
                   states, universes, dmxLock, workerpc, wcur, sent,
                   multiVars, fadeVars, apiVars, log, panicked>>

\* ProcessCueList, post processing cleanup once ProcessCue has returned
CueListFinish ==
    /\ ~mainDone
    /\ clpc = "cue"
    /\ frameIdx > Len(ActiveCue.Frames)
    /\ ProcessedCues' = Append(ProcessedCues, [ActiveCue EXCEPT !.FinishedAt = now,
                                                               !.Status = statusProcessed])
    /\ ActiveCue' = NoCue
    /\ clpc' = "select"
    /\ wg' = wg - (IF Len(ActiveCue.Frames) > 0 THEN 2 ELSE 1)
    /\ UNCHANGED <<Cues, currentID, frameIdx, enqCalls, ctxDone, pfa, ss, mainDone,
                   states, universes, dmxLock, workerpc, wcur, sent,
                   multiVars, fadeVars, apiVars, log, panicked>>

\* ProcessCueList, case <-ctx.Done(): return
CueListShutdown ==
    /\ ~mainDone
    /\ clpc = "select"
    /\ ctxDone
    /\ clpc' = "exit"
    /\ wg' = wg - 1
    /\ UNCHANGED <<Cues, ActiveCue, ProcessedCues, currentID, frameIdx, enqCalls, ctxDone,
                   pfa, ss, mainDone, states, universes, dmxLock, workerpc, wcur, sent,
                   multiVars, fadeVars, apiVars, log, panicked>>

\* logger.Errorf("Cannot find fixture by name: %s\n", cfa.FixtureName); log holds
\* the entries of level warning and above
CannotFindFixture(name) ==
    [level |-> "error", msg |-> "Cannot find fixture by name", name |-> name]

\* ProcessFrameAction giving up the whole frame at an unknown fixture: the actions
\* of the frame that have not started yet never do
ProcessFrameActionStopsFrame(id) ==
    /\ ~mainDone
    /\ id \in DOMAIN pfa
    /\ pfa[id].pc = "start"
    /\ IF GetByName(pfa[id].FixtureName) # "nil"
       THEN /\ pfa' = [pfa EXCEPT ![id].pc = "sleep"]
            /\ ss' = (id :> [fixture |-> pfa[id].FixtureName, target |-> pfa[id].NewState,
                             call |-> "intensity", opi |-> 0]) @@ ss
            /\ log' = log
       ELSE /\ pfa' = [k \in DOMAIN pfa |-> [pfa[k] EXCEPT !.pc = "sleep"]]
            /\ ss' = ss
            /\ log' = log \cup {CannotFindFixture(pfa[id].FixtureName)}
    /\ UNCHANGED <<wg, Cues, ActiveCue, ProcessedCues, currentID, clpc, frameIdx, enqCalls,
                   ctxDone, mainDone, states, universes, dmxLock, workerpc, wcur, sent,
                   multiVars, fadeVars, apiVars, panicked>>

\* ProcessFrameAction up to its Sleep: look the fixture up and start SetState in a
\* goroutine of its own, or log that the fixture is unknown
ProcessFrameAction(id) ==
    /\ ~mainDone
    /\ id \in DOMAIN pfa
    /\ pfa[id].pc = "start"
    /\ pfa' = [pfa EXCEPT ![id].pc = "sleep"]
    /\ IF GetByName(pfa[id].FixtureName) # "nil"
       THEN ss' = (id :> [fixture |-> pfa[id].FixtureName, target |-> pfa[id].NewState,
                          call |-> "intensity", opi |-> 0]) @@ ss
       ELSE ss' = ss
    /\ log' = IF GetByName(pfa[id].FixtureName) # "nil" THEN log
              ELSE log \cup {CannotFindFixture(pfa[id].FixtureName)}
    /\ UNCHANGED <<wg, Cues, ActiveCue, ProcessedCues, currentID, clpc, frameIdx, enqCalls,
                   ctxDone, mainDone, states, universes, dmxLock, workerpc, wcur, sent,
                   multiVars, fadeVars, apiVars, panicked>>

\* ProcessFrameAction returning without its deferred wg.Done()
ProcessFrameActionWithoutDone(id) ==
    /\ ~mainDone
    /\ id \in DOMAIN pfa
    /\ pfa[id].pc = "sleep"
    /\ pfa' = [k \in DOMAIN pfa \ {id} |-> pfa[k]]
    /\ UNCHANGED <<wg, Cues, ActiveCue, ProcessedCues, currentID, clpc, frameIdx, enqCalls,
                   ctxDone, ss, mainDone, states, universes, dmxLock, workerpc, wcur, sent,
                   multiVars, fadeVars, apiVars, log, panicked>>

\* ProcessFrameAction returns after its Sleep (wg.Done)
ProcessFrameActionDone(id) ==
    /\ ~mainDone
    /\ id \in DOMAIN pfa
    /\ pfa[id].pc = "sleep"
    /\ pfa' = [k \in DOMAIN pfa \ {id} |-> pfa[k]]
    /\ wg' = wg - 1
    /\ UNCHANGED <<Cues, ActiveCue, ProcessedCues, currentID, clpc, frameIdx, enqCalls,
                   ctxDone, ss, mainDone, states, universes, dmxLock, workerpc, wcur, sent,
                   multiVars, fadeVars, apiVars, log, panicked>>

\* ------------------------------------------- Fixture.SetState goroutines
\* a SetState goroutine moves on to its next call; it ends after the last one
Advance(id) ==
    IF NextCall(ss[id].call) = "done"
    THEN [k \in DOMAIN ss \ {id} |-> ss[k]]
    ELSE [ss EXCEPT ![id].call = NextCall(ss[id].call), ![id].opi = 0]

\* one iteration of the loop of DMXState.set, inside a SetDMXState call of a
\* SetState goroutine: the first iteration takes s.lock, an out-of-range channel
\* returns the error (the caller drops it), the last iteration returns nil
DMXSetStep(id) ==
    /\ ~mainDone
    /\ id \in DOMAIN ss
    /\ ss[id].call \in {"intensity", "rgb", "position"}
    /\ IF ss[id].opi = 0 THEN dmxLock = Unlocked ELSE dmxLock = id
    /\ LET ops == OpsOf(ss[id])
           i == ss[id].opi + 1
       IN IF ~channelInRange(ops[i].channel)
          THEN /\ universes' = universes
               /\ dmxLock' = Unlocked
               /\ ss' = Advance(id)
          ELSE /\ universes' = setOne(universes, ops[i])
               /\ IF i = Len(ops)
                  THEN dmxLock' = Unlocked /\ ss' = Advance(id)
                  ELSE dmxLock' = id /\ ss' = [ss EXCEPT ![id].opi = i]
    /\ UNCHANGED <<wg, Cues, ActiveCue, ProcessedCues, currentID, clpc, frameIdx, enqCalls,
                   ctxDone, pfa, mainDone, states, workerpc, wcur, sent,
                   multiVars, fadeVars, apiVars, log, panicked>>

\* StateManager.SetState as Fixture.SetState calls it: with State{RGB: color} at
\* the end of blindlySetRGBToStateAndDMX, with target.ToState() as its last call
ManagerSetState(id) ==
    /\ ~mainDone
    /\ id \in DOMAIN ss
    /\ ss[id].call \in {"stateRGB", "stateFinal"}
    /\ states' = [states EXCEPT ![ss[id].fixture] =
                    IF ss[id].call = "stateRGB"
                    THEN [ZeroState EXCEPT !.RGB = ss[id].target.RGB]
                    ELSE ToState(ss[id].target)]
    /\ ss' = Advance(id)
    /\ UNCHANGED <<wg, Cues, ActiveCue, ProcessedCues, currentID, clpc, frameIdx, enqCalls,
                   ctxDone, pfa, mainDone, universes, dmxLock, workerpc, wcur, sent,
                   multiVars, fadeVars, apiVars, log, panicked>>

\* ------------------------------------------------------- SendDMXWorker
\* the timer fired: the range over the universes map yields universe u and its slice
WorkerFetch(u) ==
    /\ ~mainDone
    /\ workerpc = "select"
    /\ u \in DOMAIN universes
    /\ workerpc' = "send"
    /\ wcur' = u
    /\ UNCHANGED <<wg, Cues, ActiveCue, ProcessedCues, currentID, clpc, frameIdx, enqCalls,
                   ctxDone, pfa, ss, mainDone, states, universes, dmxLock, sent,
                   multiVars, fadeVars, apiVars, log, panicked>>

\* client.SendDmx(k, v): the bytes of the slice go out as they are now
WorkerSendDmx ==
    /\ ~mainDone
    /\ workerpc = "send"
    /\ sent' = (wcur :> universes[wcur]) @@ sent
    /\ workerpc' = "select"
    /\ wcur' = 0
    /\ UNCHANGED <<wg, Cues, ActiveCue, ProcessedCues, currentID, clpc, frameIdx, enqCalls,
                   ctxDone, pfa, ss, mainDone, states, universes, dmxLock,
                   multiVars, fadeVars, apiVars, log, panicked>>

\* case <-ctx.Done(): return ctx.Err(), the deferred client.Close() runs
WorkerShutdown ==
    /\ ~mainDone
    /\ workerpc = "select"
    /\ ctxDone
    /\ workerpc' = "exit"
    /\ wg' = wg - 1
    /\ UNCHANGED <<Cues, ActiveCue, ProcessedCues, currentID, clpc, frameIdx, enqCalls,
                   ctxDone, pfa, ss, mainDone, states, universes, dmxLock, wcur, sent,
                   multiVars, fadeVars, apiVars, log, panicked>>

\* ----------------------------------------------------------------- Run
\* the interrupt arrives: cancel()
Cancel ==
    /\ ~ctxDone
    /\ ctxDone' = TRUE
    /\ UNCHANGED <<wg, Cues, ActiveCue, ProcessedCues, currentID, clpc, frameIdx, enqCalls,
                   pfa, ss, mainDone, states, universes, dmxLock, workerpc, wcur, sent,
                   multiVars, fadeVars, apiVars, log, panicked>>

\* wg.Wait() returns once every goroutine counted on the WaitGroup is done, and
\* Run returns
RunReturn ==
    /\ ~mainDone
    /\ ctxDone
    /\ wg = 0
    /\ mainDone' = TRUE
    /\ UNCHANGED <<wg, Cues, ActiveCue, ProcessedCues, currentID, clpc, frameIdx, enqCalls,
                   ctxDone, pfa, ss, states, universes, dmxLock, workerpc, wcur, sent,
                   multiVars, fadeVars, apiVars, log, panicked>>

\* the multicue console before it starts
MultiIdle ==
    /\ build = "none"
    /\ pendingCues = << >>
    /\ activeCues = << >>
    /\ processedCues = << >>
    /\ bpm = 0
    /\ progress = 0
    /\ quitting = FALSE
    /\ sinceGo = 0

\* InitializeMaster, NewManager and the start of Run
InitMaster ==
    /\ Cues = << >>
    /\ ActiveCue = NoCue
    /\ ProcessedCues = << >>
    /\ currentID = 1
    /\ clpc = "select"
    /\ frameIdx = 0
    /\ enqCalls = 0
    /\ wg = 2
    /\ ctxDone = FALSE
    /\ pfa = [k \in {} |-> 0]
    /\ ss = [k \in {} |-> 0]
    /\ mainDone = FALSE
    /\ states = [f \in FixtureNames |-> ZeroState]
    /\ universes = [u \in {} |-> ZeroFrame]
    /\ dmxLock = Unlocked
    /\ workerpc = "select"
    /\ wcur = 0
    /\ sent = [u \in {} |-> ZeroFrame]

\* no caller of the fading SetState
FadeIdle == fade = [pc |-> "idle", calls |-> 0]

\* no sequential caller: nothing called, nothing built, the clock not read
ApiIdle ==
    /\ last = [fn |-> "none"]
    /\ uni = [Channels |-> << >>, cap |-> 0]
    /\ config = << >>
    /\ manager = [called |-> FALSE, nil |-> TRUE, err |-> "nil", items |-> [name \in {} |-> 0]]
    /\ metro = [startTime |-> 0, tempo |-> 0]
    /\ LegacyIdle
    /\ now = 0

Init ==
    /\ InitMaster
    /\ MultiIdle
    /\ FadeIdle
    /\ ApiIdle
    /\ log = {}
    /\ panicked = FALSE

\* the action IDs the master can have handed out
ActionIDs == 1..(4 * MaxEnqueued)

Next ==
    \/ \E c \in CueInputs : EnQueueCue(c)
    \/ CueListDequeue
    \/ ProcessFrame
    \/ CueListFinish
    \/ CueListShutdown
    \/ \E id \in ActionIDs : ProcessFrameAction(id)
    \/ \E id \in ActionIDs : ProcessFrameActionDone(id)
    \/ \E id \in ActionIDs : DMXSetStep(id)
    \/ \E id \in ActionIDs : ManagerSetState(id)
    \/ \E u \in {PatchedFixtures[f].Universe : f \in FixtureNames} : WorkerFetch(u)
    \/ WorkerSendDmx
    \/ WorkerShutdown
    \/ Cancel
    \/ RunReturn

Spec == Init /\ [][Next]_vars

\* the cues Run enqueues: a cue of two frames and a cue whose one frame has two
\* actions, one of them on a fixture nobody patched
RunInputs ==
    {cycleFixtureStates(<<"left_middle_par">>, stateA, stateB, 680, 1),
     clearFixtures(<<"unpatched_par", "left_middle_par">>)}

\* Run as main.go writes it: the cues are enqueued before ProcessForever starts
\* the cue-list processor, the interrupt comes at any moment after that
NextRun ==
    \/ \E c \in RunInputs : EnQueueCue(c) /\ clpc = "select" /\ ProcessedCues = <<>> /\ ~ctxDone
    \/ CueListDequeue
    \/ ProcessFrame
    \/ CueListFinish
    \/ CueListShutdown
    \/ \E id \in ActionIDs : ProcessFrameAction(id)
    \/ \E id \in ActionIDs : ProcessFrameActionDone(id)
    \/ \E id \in ActionIDs : DMXSetStep(id)
    \/ \E id \in ActionIDs : ManagerSetState(id)
    \/ \E u \in {PatchedFixtures[f].Universe : f \in FixtureNames} : WorkerFetch(u)
    \/ WorkerSendDmx
    \/ WorkerShutdown
    \/ Cancel
    \/ RunReturn

SpecRun == Init /\ [][NextRun]_vars

\* ------------------------------------------------- scheduling of Run's goroutines
\* The Go scheduler runs every runnable goroutine eventually and every Sleep
\* ends (weak fairness of the steps below); a select with several ready cases
\* picks one at random, so a loop that comes back to its select again and again
\* takes the ctx.Done() case eventually (strong fairness of the two shutdown steps)
FairSpecRun ==
    /\ SpecRun
    /\ WF_vars(ProcessFrame)
    /\ WF_vars(CueListFinish)
    /\ WF_vars(\E id \in ActionIDs : ProcessFrameAction(id))
    /\ WF_vars(\E id \in ActionIDs : ProcessFrameActionDone(id))
    /\ WF_vars(WorkerSendDmx)
    /\ SF_vars(CueListShutdown)
    /\ SF_vars(WorkerShutdown)
    /\ WF_vars(RunReturn)

\* ------------------------------------------------- EnQueueCue with IDs of the caller
\* the cues of CueInputs, as they are and with the cue's ID field set by the
\* caller (AddIDsRecursively fills only the ID fields that are 0)
IDInputs ==
    {[c EXCEPT !.ID = id] : c \in CueInputs, id \in {0, 2}}

NextIDs ==
    \/ \E c \in IDInputs : EnQueueCue(c)
    \/ CueListDequeue
    \/ ProcessFrame
    \/ CueListFinish
    \/ \E id \in ActionIDs : ProcessFrameAction(id)
    \/ \E id \in ActionIDs : ProcessFrameActionDone(id)

SpecIDs == Init /\ [][NextIDs]_vars

\* ------------------------------------------------------ multicue console
\* cue_master.go: the size of the pool of progress bars
MaxActiveCues == 5

\* newModel: the tempo the console starts with
InitialBpm == 130

\* cues.go getCues: name and FadeTime (in seconds, one tick message a second)
getCues == <<[name |-> "Cue 1", FadeTime |-> 10], [name |-> "Cue 2", FadeTime |-> 5]>>

\* View indexes m.activeProgress with the index of every active cue
ViewIndexInRange(ac) == Len(ac) <= MaxActiveCues

\* the two revisions of the go key in Update
MultiBuilds == {"update.go", "effect.go"}

ConsoleRunning == build \in MultiBuilds /\ ~quitting /\ ~panicked

\* Update, key "[": m.bpm--
BpmDown ==
    /\ ConsoleRunning
    /\ bpm > InitialBpm - MaxBpmSteps
    /\ bpm' = bpm - 1
    /\ panicked' = ~ViewIndexInRange(activeCues)
    /\ UNCHANGED <<masterVars, fadeVars, apiVars, log, build, pendingCues, activeCues, processedCues,
                   progress, quitting, sinceGo>>

\* Update, key "]": m.bpm++
BpmUp ==
    /\ ConsoleRunning
    /\ bpm < InitialBpm + MaxBpmSteps
    /\ bpm' = bpm + 1
    /\ panicked' = ~ViewIndexInRange(activeCues)
    /\ UNCHANGED <<masterVars, fadeVars, apiVars, log, build, pendingCues, activeCues, processedCues,
                   progress, quitting, sinceGo>>

\* Update of update.go, key "g": pop pendingCues[0] (an index out of range when
\* nothing is pending) and append it to the active cues
GoKey ==
    /\ ConsoleRunning
    /\ build = "update.go"
    /\ IF Len(pendingCues) = 0
       THEN /\ panicked' = TRUE
            /\ UNCHANGED <<pendingCues, activeCues, sinceGo>>
       ELSE /\ pendingCues' = Tail(pendingCues)
            /\ activeCues' = Append(activeCues, Head(pendingCues))
            /\ sinceGo' = 0
            /\ panicked' = ~ViewIndexInRange(activeCues')
    /\ UNCHANGED <<masterVars, fadeVars, apiVars, log, build, processedCues, bpm, progress, quitting>>

\* Update as effect.go has it, key "g": as above, then with more than one active
\* cue the oldest moves to the processed cues
GoKeyTrim ==
    /\ ConsoleRunning
    /\ build = "effect.go"
    /\ IF Len(pendingCues) = 0
       THEN /\ panicked' = TRUE
            /\ UNCHANGED <<pendingCues, activeCues, processedCues, sinceGo>>
       ELSE LET appended == Append(activeCues, Head(pendingCues))
            IN /\ pendingCues' = Tail(pendingCues)
               /\ IF Len(appended) > 1
                  THEN /\ activeCues' = Tail(appended)
                       /\ processedCues' = Append(processedCues, Head(appended))
                  ELSE /\ activeCues' = appended
                       /\ processedCues' = processedCues
               /\ sinceGo' = 0
               /\ panicked' = ~ViewIndexInRange(activeCues')
    /\ UNCHANGED <<masterVars, fadeVars, apiVars, log, build, bpm, progress, quitting>>

\* Update, tickMsg: every active cue renders its frame (RenderFrame of cues.go
\* is empty), m.progress += 0.1, and the next tick is asked for
Tick ==
    /\ ConsoleRunning
    /\ progress < MaxTicks
    /\ progress' = progress + 1
    /\ sinceGo' = IF sinceGo < MaxTicks THEN sinceGo + 1 ELSE sinceGo
    /\ panicked' = ~ViewIndexInRange(activeCues)
    /\ UNCHANGED <<masterVars, fadeVars, apiVars, log, build, pendingCues, activeCues, processedCues, bpm,
                   quitting>>

\* Update, key "ctrl+c": m.quitting = true and tea.Quit ends the program
Quit ==
    /\ ConsoleRunning
    /\ quitting' = TRUE
    /\ panicked' = ~ViewIndexInRange(activeCues)
    /\ UNCHANGED <<masterVars, fadeVars, apiVars, log, build, pendingCues, activeCues, processedCues, bpm,
                   progress, sinceGo>>

\* newModel, for either revision of Update; the show runner is not started
InitMulti ==
    /\ InitMaster
    /\ FadeIdle
    /\ ApiIdle
    /\ log = {}
    /\ build \in MultiBuilds
    /\ pendingCues = getCues
    /\ activeCues = << >>
    /\ processedCues = << >>
    /\ bpm = InitialBpm
    /\ progress = 0
    /\ quitting = FALSE
    /\ sinceGo = 0
    /\ panicked = FALSE

NextMulti ==
    \/ BpmDown
    \/ BpmUp
    \/ GoKey
    \/ GoKeyTrim
    \/ Tick
    \/ Quit

SpecMulti == InitMulti /\ [][NextMulti]_vars

\* the runtime keeps delivering the tick it was asked for
FairSpecMulti == SpecMulti /\ WF_vars(Tick)

\* ---------------------------------------- Fixture.SetState with a fade
\* tickIntervalFadeInterpolation, in milliseconds
tickIntervalFadeInterpolation == 30

\* utils.GetDimmerFadeValue for numSteps other than 1: step / (numSteps - 1) of
\* the target, truncated towards zero, clamped to 0..255
GetDimmerFadeValue(target, step, numSteps) ==
    IF step = numSteps - 1 THEN target
    ELSE LET out == (step * target) \div (numSteps - 1)
         IN IF out > 255 THEN 255 ELSE IF out < 0 THEN 0 ELSE out

\* with numSteps = 1 the progress is 0/0 and the result is int(NaN), which Go
\* leaves to the platform: stand-ins with the sign and the low byte of the
\* smallest int64, of 0 and of the largest int64
IntOfNaN == {-(2^30), 0, 2^30 - 1}

DimmerFadeValues(target, step, numSteps) ==
    IF numSteps = 1 THEN IntOfNaN ELSE {GetDimmerFadeValue(target, step, numSteps)}

\* DMXState.set as one call: the operations in order, stopping at the first
\* channel out of range
RECURSIVE set(_, _)
set(us, ops) ==
    IF ops = << >> \/ ~channelInRange(Head(ops).channel) THEN us
    ELSE set(setOne(us, Head(ops)), Tail(ops))

\* blindlySetRGBToStateAndDMX of the fading revision: the intensity channel is
\* written too, with 200
fadeBlindlySetRGBToStateAndDMX(f, color) ==
    <<dmxOperation(PatchedFixtures[f].Universe,
                   getChannelIDForAttributes(f, ChannelTypeIntensity), 200)>>
    \o blindlySetRGBToStateAndDMX(f, color)

\* the colours the calls are made with; an interpolated colour is one of them
FadeColors == {RGBBlack, RGBRed, RGBWhite}

\* the targets SetState is called with: up to MaxFadeSteps ticks long
FadeTargets ==
    [Intensity : {0, 255}, RGB : {RGBRed, RGBWhite}, Strobe : {0}, Pan : {0}, Tilt : {0},
     Duration : {k * tickIntervalFadeInterpolation : k \in 0..MaxFadeSteps}]

\* Fixture.SetState up to its loop: read the current state, count the steps
FadeSetState(f, target) ==
    /\ fade.pc \in {"idle", "done"}
    /\ fade.calls < MaxFadeCalls
    /\ fade' = [pc |-> "loop", calls |-> fade.calls + 1, fixture |-> f, target |-> target,
                currentState |-> states[f],
                numSteps |-> target.Duration \div tickIntervalFadeInterpolation,
                x |-> 0, intVal |-> 0]
    /\ UNCHANGED <<wg, Cues, ActiveCue, ProcessedCues, currentID, clpc, frameIdx, enqCalls,
                   ctxDone, pfa, ss, mainDone, states, universes, dmxLock, workerpc, wcur,
                   sent, multiVars, apiVars, log, panicked>>

\* one pass of the loop: the faded intensity, then the interpolated colour
\* (GetInterpolatedFade belongs to utils.RGB: any of FadeColors), then the sleep
FadeStep ==
    /\ fade.pc = "loop"
    /\ fade.x < fade.numSteps
    /\ \E intVal \in DimmerFadeValues(fade.target.Intensity, fade.x, fade.numSteps),
          interpolated \in FadeColors :
          /\ universes' = set(set(universes,
                                  setIntensityToStateAndDMX(fade.fixture, intVal)),
                              fadeBlindlySetRGBToStateAndDMX(fade.fixture, interpolated))
          /\ states' = [states EXCEPT ![fade.fixture] =
                            [ZeroState EXCEPT !.RGB = interpolated]]
          /\ fade' = [fade EXCEPT !.x = @ + 1, !.intVal = intVal]
    /\ UNCHANGED <<wg, Cues, ActiveCue, ProcessedCues, currentID, clpc, frameIdx, enqCalls,
                   ctxDone, pfa, ss, mainDone, dmxLock, workerpc, wcur, sent,
                   multiVars, apiVars, log, panicked>>

\* after the loop: the target's intensity and colour, and the state of the target
FadeFinish ==
    /\ fade.pc = "loop"
    /\ fade.x >= fade.numSteps
    /\ universes' = set(set(universes,
                            setIntensityToStateAndDMX(fade.fixture, fade.target.Intensity)),
                        fadeBlindlySetRGBToStateAndDMX(fade.fixture, fade.target.RGB))
    /\ states' = [states EXCEPT ![fade.fixture] = ToState(fade.target)]
    /\ fade' = [fade EXCEPT !.pc = "done"]
    /\ UNCHANGED <<wg, Cues, ActiveCue, ProcessedCues, currentID, clpc, frameIdx, enqCalls,
                   ctxDone, pfa, ss, mainDone, dmxLock, workerpc, wcur, sent,
                   multiVars, apiVars, log, panicked>>

\* a fixture manager with the patched fixtures and nothing else running
InitFade ==
    /\ InitMaster
    /\ MultiIdle
    /\ FadeIdle
    /\ ApiIdle
    /\ log = {}
    /\ panicked = FALSE

NextFade ==
    \/ \E f \in FixtureNames, target \in FadeTargets : FadeSetState(f, target)
    \/ FadeStep
    \/ FadeFinish

SpecFade == InitFade /\ [][NextFade]_vars

\* ====================================================== the fixture layer
\* SpecDMX: one caller that uses the fixture layer as a library, one call after
\* the other: StateManager.SetDMXState, Fixture.SetState of the revision without
\* fading, and Set and Get of a dmx.Universe made by NewUniverse

\* how many dmxOperations one SetDMXState call of the caller has
MaxOps == 2

\* dmx.UniverseChannels
UniverseChannels == 512

\* the error DMXState.set returns: that of the first channel out of range, or nil
RECURSIVE setReturns(_)
setReturns(ops) ==
    IF ops = << >> THEN "nil"
    ELSE IF ~channelInRange(Head(ops).channel)
         THEN "dmx channel not in range"
         ELSE setReturns(Tail(ops))

\* the operations the caller passes: channels at and around the ends of the
\* ranges with the two ends of a byte, and the first channel with the values
\* next to the ends of a byte
DMXInputOps ==
    {dmxOperation(1, c, v) :
        c \in {0, 1, DMXChannels, DMXChannels + 1, UniverseChannels, UniverseChannels + 1},
        v \in {0, 255}}
    \cup {dmxOperation(1, 1, v) : v \in {-1, 256}}

\* StateManager.SetDMXState(ops...)
SetDMXState(ops) ==
    /\ ~panicked
    /\ universes' = set(universes, ops)
    /\ last' = [fn |-> "SetDMXState", ops |-> ops, err |-> setReturns(ops)]
    /\ UNCHANGED <<wg, Cues, ActiveCue, ProcessedCues, currentID, clpc, frameIdx, enqCalls,
                   ctxDone, pfa, ss, mainDone, states, dmxLock, workerpc, wcur, sent,
                   multiVars, fadeVars, legacyVars, uni, config, manager, metro, now, log, panicked>>

\* the targets Fixture.SetState is called with: the state of the cue of
\* main.go that has a position, and that of clearFixtures
SetStateTargets ==
    {[Intensity |-> 255, RGB |-> RGBRed, Strobe |-> 0, Pan |-> 38, Tilt |-> 55,
      Duration |-> 0],
     [Intensity |-> 0, RGB |-> RGBBlack, Strobe |-> 0, Pan |-> 0, Tilt |-> 0,
      Duration |-> 0]}

\* Fixture.SetState, the whole call: the three SetDMXState calls, whose errors
\* it drops, and the two SetState calls of the manager, of which the last stays
FixtureSetState(f, target) ==
    /\ ~panicked
    /\ universes' = set(set(set(universes,
                                setIntensityToStateAndDMX(f, target.Intensity)),
                            blindlySetRGBToStateAndDMX(f, target.RGB)),
                        setPositionToStateAndDMX(f, target.Pan, target.Tilt))
    /\ states' = [states EXCEPT ![f] = ToState(target)]
    /\ last' = [fn |-> "SetState", fixture |-> f, target |-> target]
    /\ UNCHANGED <<wg, Cues, ActiveCue, ProcessedCues, currentID, clpc, frameIdx, enqCalls,
                   ctxDone, pfa, ss, mainDone, dmxLock, workerpc, wcur, sent,
                   multiVars, fadeVars, legacyVars, uni, config, manager, metro, now, log, panicked>>

\* dmx.NewUniverse: make([]Channel, 0, UniverseChannels)
NewUniverse == [Channels |-> << >>, cap |-> UniverseChannels]

\* the check at the head of Universe.Get and Universe.Set: panic("Invalid DMX address")
InvalidAddress(address) == address <= 0 \/ address > UniverseChannels

\* Universe.Get of a valid address: 0 past the end of the slice
Get(u, address) ==
    IF address > Len(u.Channels) THEN 0 ELSE u.Channels[address]

\* the slice expressions of Universe.Set, Channels[:address+1] and
\* Channels[address:], are out of range: a panic of the runtime
SliceOutOfRange(u, address) == address + 1 > u.cap \/ address > Len(u.Channels)

\* Universe.Set of a valid address whose slice expressions are in range: append
\* puts the tail one place further and Channels[address] (Go counts from 0)
\* gets the value
Set(u, address, value) ==
    [Channels |-> SubSeq(u.Channels, 1, address) \o <<value>>
                  \o SubSeq(u.Channels, address + 1, Len(u.Channels)),
     cap |-> IF Len(u.Channels) + 1 > u.cap THEN Len(u.Channels) + 1 ELSE u.cap]

\* the addresses and values the caller passes
UniverseAddresses == {0, 1, 2, UniverseChannels, UniverseChannels + 1}
ChannelValues == {0, 255}

\* a call of Universe.Set
UniverseSet(address, value) ==
    /\ ~panicked
    /\ IF InvalidAddress(address) \/ SliceOutOfRange(uni, address)
       THEN uni' = uni /\ panicked' = TRUE
       ELSE uni' = Set(uni, address, value) /\ panicked' = FALSE
    /\ last' = [fn |-> "Set", address |-> address, value |-> value]
    /\ UNCHANGED <<masterVars, multiVars, fadeVars, legacyVars, config, manager, metro, now, log>>

\* a call of Universe.Get
UniverseGet(address) ==
    /\ ~panicked
    /\ panicked' = InvalidAddress(address)
    /\ last' = [fn |-> "Get", address |-> address,
                result |-> IF InvalidAddress(address) THEN 0 ELSE Get(uni, address)]
    /\ UNCHANGED <<masterVars, multiVars, fadeVars, legacyVars, uni, config, manager, metro, now, log>>

\* NewManager with the patched fixtures, and a universe from NewUniverse
InitDMX ==
    /\ InitMaster
    /\ MultiIdle
    /\ FadeIdle
    /\ last = [fn |-> "none"]
    /\ uni = NewUniverse
    /\ config = << >>
    /\ manager = [called |-> FALSE, nil |-> TRUE, err |-> "nil", items |-> [name \in {} |-> 0]]
    /\ metro = [startTime |-> 0, tempo |-> 0]
    /\ LegacyIdle
    /\ now = 0
    /\ log = {}
    /\ panicked = FALSE

NextDMX ==
    \/ \E n \in 1..MaxOps : \E ops \in [1..n -> DMXInputOps] : SetDMXState(ops)
    \/ \E f \in FixtureNames, target \in SetStateTargets : FixtureSetState(f, target)
    \/ \E address \in UniverseAddresses, value \in ChannelValues : UniverseSet(address, value)
    \/ \E address \in UniverseAddresses : UniverseGet(address)

SpecDMX == InitDMX /\ [][NextDMX]_vars

\* ===================================================== the fixture patch
\* SpecPatch: NewManager, called once with a patch

\* how many fixtures the patch handed to NewManager has at most
MaxPatch == 3

PatchedFixture(name, address, universe, profile) ==
    [Name |-> name, Address |-> address, Universe |-> universe, Profile |-> profile]

\* the fixtures a patch is made of: spots and washes of PatchFixtures, and the
\* fixture of TestDuplicateFixtures, which has a name and nothing else
PatchInputs ==
    {PatchedFixture("left_spot", 20, 1, "shehds-led-spot-60w"),
     PatchedFixture("left_wash", 20, 1, "shehds-led-wash-7x18w-rgbwa-uv"),
     PatchedFixture("right_wash", 31, 1, "shehds-led-wash-7x18w-rgbwa-uv"),
     PatchedFixture("fixture1", 0, 0, "")}

\* how many channels a fixture of a profile takes: both are patched in their
\* 10 channel mode; the empty profile of the test has none
ProfileModes ==
    ("shehds-led-spot-60w" :> 10) @@ ("shehds-led-wash-7x18w-rgbwa-uv" :> 10) @@ ("" :> 0)

\* m.items before the loop of NewManager
NoItems == [name \in {} |-> 0]

\* what NewManager returns when it keeps the later of two fixtures of one name
NewManagerLastWins(patch) ==
    [called |-> TRUE, nil |-> FALSE, err |-> "nil",
     items |-> [name \in {patch[i].Name : i \in 1..Len(patch)} |->
                  patch[CHOOSE i \in 1..Len(patch) :
                          /\ patch[i].Name = name
                          /\ \A j \in (i + 1)..Len(patch) : patch[j].Name # name]]]

\* the loop of NewManager over config.PatchedFixtures: the error and no manager
\* at the first name that m.items has already, else the fixture is added
RECURSIVE newManagerLoop(_, _)
newManagerLoop(items, rest) ==
    IF rest = << >>
    THEN [called |-> TRUE, nil |-> FALSE, err |-> "nil", items |-> items]
    ELSE IF Head(rest).Name \in DOMAIN items
         THEN [called |-> TRUE, nil |-> TRUE, err |-> "duplicate fixtures found!",
               items |-> NoItems]
         ELSE newManagerLoop((Head(rest).Name :> Head(rest)) @@ items, Tail(rest))

\* what NewManager(config) returns: the manager (nil or its items) and the error
NewManager(patch) == newManagerLoop(NoItems, patch)

\* the call of NewManager; a manager that is returned has the zero State of
\* every fixture (m.SetState(x.Name, State{}))
CallNewManager ==
    /\ ~manager.called
    /\ manager' = NewManager(config)
    /\ states' = IF manager'.nil THEN states
                 ELSE [name \in DOMAIN manager'.items |-> ZeroState]
    /\ last' = [fn |-> "NewManager"]
    /\ UNCHANGED <<wg, Cues, ActiveCue, ProcessedCues, currentID, clpc, frameIdx, enqCalls,
                   ctxDone, pfa, ss, mainDone, universes, dmxLock, workerpc, wcur, sent,
                   multiVars, fadeVars, legacyVars, uni, config, metro, now, log, panicked>>

\* any patch of up to MaxPatch fixtures, and no manager yet
InitPatch ==
    /\ InitMaster
    /\ MultiIdle
    /\ FadeIdle
    /\ last = [fn |-> "none"]
    /\ uni = [Channels |-> << >>, cap |-> 0]
    /\ config \in UNION {[1..n -> PatchInputs] : n \in 0..MaxPatch}
    /\ manager = [called |-> FALSE, nil |-> TRUE, err |-> "nil", items |-> NoItems]
    /\ metro = [startTime |-> 0, tempo |-> 0]
    /\ LegacyIdle
    /\ now = 0
    /\ log = {}
    /\ panicked = FALSE

NextPatch == CallNewManager

SpecPatch == InitPatch /\ [][NextPatch]_vars

\* ======================================================== the metronome
\* SpecMetronome: a rhythm.Metronome from NewMetronome, SetTempo calls and the
\* clock. Instants and durations are nanoseconds, as time.Time and
\* time.Duration count them; beat intervals are milliseconds, as
\* beatsToMilliseconds gives them.

\* the last instant the clock reaches, in milliseconds after NewMetronome
MaxNowMs == 1800

Millisecond == 1000000

\* the tempo of NewMetronome
DefaultTempo == 120

\* instant.Sub(start).Seconds() * 1000 / interval, with interval the
\* beatsToMilliseconds(1, tempo) of GetBeatInterval, as a count of 60000ths:
\* the whole 60000ths and the millionths of one that are left
ratioWhole(elapsed, tempo) ==
    (elapsed \div Millisecond) * tempo + (((elapsed % Millisecond) * tempo) \div Millisecond)
ratioRest(elapsed, tempo) == ((elapsed % Millisecond) * tempo) % Millisecond

\* markerNumber: floor(ratio) + 1
markerNumber(instant, start, tempo) == (ratioWhole(instant - start, tempo) \div 60000) + 1

\* markerPhase: ratio - floor(ratio), as whole 60000ths and millionths of one
markerPhase(instant, start, tempo) ==
    <<ratioWhole(instant - start, tempo) % 60000, ratioRest(instant - start, tempo)>>

\* math.Round(newInterval * (phase + float64(beat) - 1)): the beats since the
\* start times the milliseconds of a beat at the new tempo, to the nearest
\* whole; where the exact product lies half way between two, the float64
\* product can lie on either side of it
roundedNewOffsets(elapsed, tempo, newTempo) ==
    LET twice == 2 * ratioWhole(elapsed, tempo) + newTempo
        up == (twice + ((2 * ratioRest(elapsed, tempo)) \div Millisecond)) \div (2 * newTempo)
    IN IF twice % (2 * newTempo) = 0 /\ ratioRest(elapsed, tempo) = 0 /\ up > 0
       THEN {up - 1, up}
       ELSE {up}

\* the tempos SetTempo is called with
TempoInputs == {10, 60, 120, 128, 240, 500}

\* how far the clock goes between two calls
ClockSteps == {100 * Millisecond, 300 * Millisecond}

\* beatsToMilliseconds: (60000.0 / tempo) * beats, in thousandths of a
\* millisecond; exact for the tempos of TempoInputs, which all divide 60,000,000
beatsToMilliseconds(beats, tempo) == (60000000 \div tempo) * beats

\* Metronome.GetBeatInterval
GetBeatInterval == beatsToMilliseconds(1, metro.tempo)

\* SetTempo moving the start time and leaving m.tempo as it was
SetTempoKeepsTempo(newTempo) ==
    /\ \E offset \in roundedNewOffsets(now - metro.startTime, metro.tempo, newTempo) :
          metro' = [startTime |-> now - offset, tempo |-> metro.tempo]
    /\ last' = [fn |-> "SetTempo", bpm |-> newTempo]
    /\ UNCHANGED <<masterVars, multiVars, fadeVars, legacyVars, uni, config, manager, now, log, panicked>>

\* Metronome.SetTempo: time.Duration(...) takes the rounded number of
\* milliseconds as a number of nanoseconds
SetTempo(newTempo) ==
    /\ \E offset \in roundedNewOffsets(now - metro.startTime, metro.tempo, newTempo) :
          metro' = [startTime |-> now - offset, tempo |-> newTempo]
    /\ last' = [fn |-> "SetTempo", bpm |-> newTempo]
    /\ UNCHANGED <<masterVars, multiVars, fadeVars, legacyVars, uni, config, manager, now, log, panicked>>

\* time.Now() moves on
TimePasses(d) ==
    /\ now + d <= MaxNowMs * Millisecond
    /\ now' = now + d
    /\ UNCHANGED <<masterVars, multiVars, fadeVars, legacyVars, last, uni, config, manager, metro, log,
                   panicked>>

\* NewMetronome at instant 0
InitMetronome ==
    /\ InitMaster
    /\ MultiIdle
    /\ FadeIdle
    /\ last = [fn |-> "none"]
    /\ uni = [Channels |-> << >>, cap |-> 0]
    /\ config = << >>
    /\ manager = [called |-> FALSE, nil |-> TRUE, err |-> "nil", items |-> NoItems]
    /\ metro = [startTime |-> 0, tempo |-> DefaultTempo]
    /\ LegacyIdle
    /\ now = 0
    /\ log = {}
    /\ panicked = FALSE

NextMetronome ==
    \/ \E newTempo \in TempoInputs : SetTempo(newTempo)
    \/ \E d \in ClockSteps : TimePasses(d)

SpecMetronome == InitMetronome /\ [][NextMetronome]_vars

\* ---------------------------------------------------------------------------
\* SpecFollow: the cue list of the master against the clock. Instants are in
\* nanoseconds, durations of frame actions in milliseconds. Computation takes
\* no time; time passes only while ProcessCueList waits on its timer or sleeps
\* in ProcessFrame. The goroutines ProcessFrame starts stay where they start:
\* they take no part in when a cue starts.
\* ---------------------------------------------------------------------------

\* Frame.GetDuration: the longest lasting action of the frame
FrameGetDuration(cf) ==
    LET ds == {cf.Actions[y].NewState.Duration : y \in 1..Len(cf.Actions)} \cup {0}
    IN CHOOSE d \in ds : \A e \in ds : e <= d

\* the time.Sleep calls of ProcessFrame for the frames ProcessCue has gone
\* through so far are over
sleepOver ==
    LET RECURSIVE slept(_)
        slept(k) == IF k = 0 THEN 0
                    ELSE FrameGetDuration(ActiveCue.Frames[k]) + slept(k - 1)
    IN now - ActiveCue.StartedAt >= Millisecond * slept(frameIdx - 1)

\* cues with and without a follow time (milliseconds)
FollowInputs ==
    {[cycleFixtureStates(<<"left_middle_par">>, stateA, stateB, 680, 1)
         EXCEPT !.FollowTime = ft] : ft \in {0, 100}}
    \cup {[clearFixtures(<<"left_middle_par">>) EXCEPT !.FollowTime = ft] : ft \in {0, 100}}

NextFollow ==
    \/ \E c \in FollowInputs : EnQueueCue(c)
    \/ CueListDequeue
    \/ ProcessFrame /\ sleepOver
    \/ CueListFinish /\ sleepOver
    \/ \E d \in ClockSteps : TimePasses(d) /\ (clpc # "cue" \/ frameIdx > 1)

SpecFollow == Init /\ [][NextFollow]_vars

\* ---------------------------------------------------------------------------
\* SpecStep: one legacy effect.Effect with a step offset, asked for its target
\* fixtures tick after tick
\* ---------------------------------------------------------------------------

\* the longest group and the largest step offset an effect is made with
MaxGroup == 4
MaxStepOffset == 3

\* the fixture lists effects are made over: the first names of the rig
EffectGroups ==
    LET rig == <<"left_top_par", "right_top_par", "left_middle_par", "right_middle_par">>
    IN {SubSeq(rig, 1, n) : n \in 2..MaxGroup}

\* NewEffect: every fixture is a target, stepIndex 0, stepTime the zero time.Time
NewEffect(fixtureNames, stepOffset) ==
    /\ ~effect.made
    /\ effect' = [made |-> TRUE, FixtureNames |-> fixtureNames, StepOffset |-> stepOffset,
                  stepIndex |-> 0, stepTimeIsZero |-> TRUE, stepTime |-> 0,
                  targetFixtureNames |-> fixtureNames]
    /\ UNCHANGED <<masterVars, multiVars, fadeVars, last, uni, config, manager, metro, now,
                   fix, gl, log, panicked>>

\* Effect.recalculateTargetFixtureNames(time.Now()); Go indexes from 0, the
\* sequences here from 1
recalculateTargetFixtureNames ==
    /\ effect.made
    /\ ~panicked
    /\ LET n == Len(effect.FixtureNames)
           due == \/ effect.stepTimeIsZero
                  \/ now - effect.stepTime > effect.StepOffset * Millisecond
           stepIndex == IF due THEN effect.stepIndex + 1 ELSE effect.stepIndex
           stepped == [effect EXCEPT !.stepIndex = stepIndex,
                                     !.stepTime = IF due THEN now ELSE @,
                                     !.stepTimeIsZero = IF due THEN FALSE ELSE @]
       IN IF effect.StepOffset = 0 \/ n = effect.StepOffset
          THEN UNCHANGED <<effect, panicked>>
          ELSE IF \E i \in stepIndex..effect.StepOffset : i >= n
          THEN /\ effect' = stepped
               /\ panicked' = TRUE
          ELSE /\ effect' = [stepped EXCEPT
                    !.targetFixtureNames =
                        [j \in 1..(IF stepIndex > effect.StepOffset THEN 0
                                   ELSE effect.StepOffset + 1 - stepIndex) |->
                            effect.FixtureNames[stepIndex + j]],
                    !.stepIndex = IF stepIndex >= n THEN 0 ELSE stepIndex]
               /\ UNCHANGED panicked
    /\ UNCHANGED <<masterVars, multiVars, fadeVars, last, uni, config, manager, metro, now,
                   fix, gl, log>>

InitStep ==
    /\ InitMaster
    /\ MultiIdle
    /\ FadeIdle
    /\ ApiIdle
    /\ log = {}
    /\ panicked = FALSE

NextStep ==
    \/ \E g \in EffectGroups, stepOffset \in 0..MaxStepOffset : NewEffect(g, stepOffset)
    \/ recalculateTargetFixtureNames
    \/ \E d \in ClockSteps : TimePasses(d)

SpecStep == InitStep /\ [][NextStep]_vars

\* ---------------------------------------------------------------------------
\* SpecGroup: the fixtures of a manager, held in a Go map, traversed
\* ---------------------------------------------------------------------------

\* the orders a range over a Go map with these keys can go in: the language
\* leaves the order open, and the runtime starts at a random place
mapRangeOrders(keys) ==
    {q \in [1..Cardinality(keys) -> keys] : \A i, j \in DOMAIN q : q[i] = q[j] => i = j}

\* StateManager.GetFixtureNames: the keys of m.items as the range hands them out
GetFixtureNames ==
    /\ manager.called
    /\ ~manager.nil
    /\ \E names \in mapRangeOrders(DOMAIN manager.items) :
          last' = [fn |-> "GetFixtureNames", names |-> names]
    /\ UNCHANGED <<masterVars, multiVars, fadeVars, legacyVars, uni, config, manager, metro,
                   now, log, panicked>>

NextGroup ==
    \/ CallNewManager
    \/ GetFixtureNames

SpecGroup == InitPatch /\ [][NextGroup]_vars

\* ---------------------------------------------------------------------------
\* SpecSend: SendDMXWorker alone over a DMX state of several universes, with an
\* OLA client whose SendDmx can return an error. last is the client's record
\* of the tick: which tick it is, the universes SendDmx was called for and the
\* ones it returned an error for.
\* ---------------------------------------------------------------------------

\* how many universes the DMX state has at most, and how many ticks are followed
MaxUniverses == 3
MaxSendTicks == 2

\* SendDMXWorker returning at the first error of SendDmx
SendDmxReturnsOnError(u, ok) ==
    /\ ~mainDone
    /\ workerpc = "range"
    /\ u \in DOMAIN universes \ last.calls
    /\ sent' = IF ok THEN (u :> universes[u]) @@ sent ELSE sent
    /\ last' = [last EXCEPT !.calls = @ \cup {u},
                            !.failed = IF ok THEN @ ELSE @ \cup {u}]
    /\ workerpc' = IF ok THEN "range" ELSE "exit"
    /\ UNCHANGED <<wg, Cues, ActiveCue, ProcessedCues, currentID, clpc, frameIdx, enqCalls,
                   ctxDone, pfa, ss, mainDone, states, universes, dmxLock, wcur,
                   multiVars, fadeVars, legacyVars, uni, config, manager, metro, now, log,
                   panicked>>

\* case <-t.C: the range over the universes map starts
SendTick ==
    /\ ~mainDone
    /\ workerpc = "select"
    /\ last.n < MaxSendTicks
    /\ workerpc' = "range"
    /\ last' = [fn |-> "tick", n |-> last.n + 1, calls |-> {}, failed |-> {}]
    /\ UNCHANGED <<wg, Cues, ActiveCue, ProcessedCues, currentID, clpc, frameIdx, enqCalls,
                   ctxDone, pfa, ss, mainDone, states, universes, dmxLock, wcur, sent,
                   multiVars, fadeVars, legacyVars, uni, config, manager, metro, now, log,
                   panicked>>

\* one pass of the range: client.SendDmx(k, v) for a universe not yet visited;
\* what it returns (ok or an error) is dropped
SendDmx(u, ok) ==
    /\ ~mainDone
    /\ workerpc = "range"
    /\ u \in DOMAIN universes \ last.calls
    /\ sent' = IF ok THEN (u :> universes[u]) @@ sent ELSE sent
    /\ last' = [last EXCEPT !.calls = @ \cup {u},
                            !.failed = IF ok THEN @ ELSE @ \cup {u}]
    /\ UNCHANGED <<wg, Cues, ActiveCue, ProcessedCues, currentID, clpc, frameIdx, enqCalls,
                   ctxDone, pfa, ss, mainDone, states, universes, dmxLock, workerpc, wcur,
                   multiVars, fadeVars, legacyVars, uni, config, manager, metro, now, log,
                   panicked>>

\* the range is through: t.Reset(tick) and back to the select
SendTickDone ==
    /\ ~mainDone
    /\ workerpc = "range"
    /\ DOMAIN universes \ last.calls = {}
    /\ workerpc' = "select"
    /\ UNCHANGED <<wg, Cues, ActiveCue, ProcessedCues, currentID, clpc, frameIdx, enqCalls,
                   ctxDone, pfa, ss, mainDone, states, universes, dmxLock, wcur, sent,
                   multiVars, fadeVars, apiVars, log, panicked>>

\* the worker at its select, the DMX state with a byte written in each of its
\* universes, a client that has been sent nothing
InitSend ==
    /\ Cues = << >>
    /\ ActiveCue = NoCue
    /\ ProcessedCues = << >>
    /\ currentID = 1
    /\ clpc = "select"
    /\ frameIdx = 0
    /\ enqCalls = 0
    /\ wg = 2
    /\ ctxDone = FALSE
    /\ pfa = [k \in {} |-> 0]
    /\ ss = [k \in {} |-> 0]
    /\ mainDone = FALSE
    /\ states = [f \in FixtureNames |-> ZeroState]
    /\ \E n \in 1..MaxUniverses : universes = [u \in 1..n |-> [c \in {1} |-> 255]]
    /\ dmxLock = Unlocked
    /\ workerpc = "select"
    /\ wcur = 0
    /\ sent = [u \in {} |-> ZeroFrame]
    /\ MultiIdle
    /\ FadeIdle
    /\ last = [fn |-> "tick", n |-> 0, calls |-> {}, failed |-> {}]
    /\ uni = [Channels |-> << >>, cap |-> 0]
    /\ config = << >>
    /\ manager = [called |-> FALSE, nil |-> TRUE, err |-> "nil", items |-> NoItems]
    /\ metro = [startTime |-> 0, tempo |-> 0]
    /\ LegacyIdle
    /\ now = 0
    /\ log = {}
    /\ panicked = FALSE

NextSend ==
    \/ SendTick
    \/ \E u \in 1..MaxUniverses, ok \in BOOLEAN : SendDmx(u, ok)
    \/ SendTickDone
    \/ Cancel
    \/ WorkerShutdown

SpecSend == InitSend /\ [][NextSend]_vars

\* ---------------------------------------------------------------------------
\* SpecFix: one fixture.Fixture of the intensity/colour API and a sequential
\* caller of its setters; last is the caller's last call. Intensities are in
\* hundredths, a colour is its red, green and blue as bytes.
\* ---------------------------------------------------------------------------

\* the hex strings SetColorFromHex is called with, as the digits after the '#'
\* (16: a character that is no hex digit): "#FF00FF", "#f0f", "#00ff00", "#ggg"
\* and "#ff"
HexInputs ==
    {<<15, 15, 0, 0, 15, 15>>, <<15, 0, 15>>, <<0, 0, 15, 15, 0, 0>>, <<16, 16, 16>>,
     <<15, 15>>}

\* colorful.Hex: two digits a component, or one digit a component in the short
\* form; anything else is an error and the zero Color
Hex(s) ==
    IF \E i \in 1..Len(s) : s[i] > 15 THEN [err |-> TRUE, c |-> <<0, 0, 0>>]
    ELSE IF Len(s) = 6
    THEN [err |-> FALSE, c |-> <<16 * s[1] + s[2], 16 * s[3] + s[4], 16 * s[5] + s[6]>>]
    ELSE IF Len(s) = 3
    THEN [err |-> FALSE, c |-> <<17 * s[1], 17 * s[2], 17 * s[3]>>]
    ELSE [err |-> TRUE, c |-> <<0, 0, 0>>]

\* NewFixture: the zero values of intensity, color and needsUpdate
NewFixture ==
    /\ ~fix.made
    /\ fix' = [made |-> TRUE, intensity |-> 0, color |-> <<0, 0, 0>>, needsUpdate |-> FALSE]
    /\ last' = [fn |-> "NewFixture"]
    /\ UNCHANGED <<masterVars, multiVars, fadeVars, effect, gl, uni, config, manager, metro, now,
                   log, panicked>>

SetIntensity(intensity) ==
    /\ fix.made
    /\ fix' = [fix EXCEPT !.intensity = intensity, !.needsUpdate = TRUE]
    /\ last' = [fn |-> "SetIntensity"]
    /\ UNCHANGED <<masterVars, multiVars, fadeVars, effect, gl, uni, config, manager, metro, now,
                   log, panicked>>

SetColor(c) ==
    /\ fix.made
    /\ fix' = [fix EXCEPT !.color = c, !.needsUpdate = TRUE]
    /\ last' = [fn |-> "SetColor"]
    /\ UNCHANGED <<masterVars, multiVars, fadeVars, effect, gl, uni, config, manager, metro, now,
                   log, panicked>>

\* SetColorFromHex: the colour Hex returned is stored, error or not; the error
\* goes to the debug log
SetColorFromHex(s) ==
    /\ fix.made
    /\ fix' = [fix EXCEPT !.color = Hex(s).c]
    /\ log' = IF Hex(s).err
              THEN log \cup {[level |-> "debug", msg |-> "error getting RGB from string"]}
              ELSE log
    /\ last' = [fn |-> "SetColorFromHex"]
    /\ UNCHANGED <<masterVars, multiVars, fadeVars, effect, gl, uni, config, manager, metro, now,
                   panicked>>

HasUpdated ==
    /\ fix.made
    /\ fix' = [fix EXCEPT !.needsUpdate = FALSE]
    /\ last' = [fn |-> "HasUpdated"]
    /\ UNCHANGED <<masterVars, multiVars, fadeVars, effect, gl, uni, config, manager, metro, now,
                   log, panicked>>

\* Fixture.NeedsUpdate
NeedsUpdate == fix.needsUpdate

InitFix ==
    /\ InitMaster
    /\ MultiIdle
    /\ FadeIdle
    /\ ApiIdle
    /\ log = {}
    /\ panicked = FALSE

NextFix ==
    \/ NewFixture
    \/ \E intensity \in {0, 25, 50, 100} : SetIntensity(intensity)
    \/ \E c \in {RGBRed, RGBWhite} : SetColor(c)
    \/ \E s \in HexInputs : SetColorFromHex(s)
    \/ HasUpdated

SpecFix == InitFix /\ [][NextFix]_vars

\* ---------------------------------------------------------------------------
\* SpecEase: one legacy/effect Effect from NewEffect and the Update calls of
\* its caller. Times and values are millionths (of a second, of the full
\* value), speeds hundredths; last is the call and what it returned.
\* ---------------------------------------------------------------------------

\* 1.0 and the 0.000001 of NewEffect and Update, in millionths
One == 1000000
Epsilon == 1

\* FPS(40): the time delta of TestEffects
DeltaFPS40 == 25000

\* ease.Linear and ease.InOutQuart of fogleman/ease; the fourth power is taken
\* of the hundredths, in two halves
EasingFunc(name, t) ==
    LET sq(x) == (x * x) \div 10
        c == t \div 10000
    IN IF name = "Linear" THEN t
       ELSE IF 2 * t < One THEN 8 * sq(c) * sq(c)
       ELSE One - 8 * sq(c - 100) * sq(c - 100)

\* Update without the bound on the value of the easing function
EffectUpdateUnbounded(deltaTime) ==
    /\ effect.made
    /\ IF effect.paused
       THEN /\ last' = [fn |-> "Update", deltaTime |-> deltaTime, ret |-> effect.value]
            /\ UNCHANGED effect
       ELSE LET time == effect.Time + (deltaTime * effect.Speed) \div 100
                value == EasingFunc(effect.EasingFunc, time)
                over == time > effect.Duration
                updated ==
                    [effect EXCEPT
                        !.Time = IF ~over THEN time
                                 ELSE IF effect.loop THEN time - effect.Duration
                                 ELSE effect.Duration - Epsilon,
                        !.paused = over /\ ~effect.loop,
                        !.value = IF over /\ ~effect.loop THEN One ELSE value]
            IN /\ effect' = updated
               /\ last' = [fn |-> "Update", deltaTime |-> deltaTime, ret |-> updated.value]
    /\ UNCHANGED <<masterVars, multiVars, fadeVars, fix, gl, uni, config, manager, metro, now,
                   log, panicked>>

\* effect.NewEffect(easingFunc, duration, speed)
NewEasingEffect(easingFunc, duration, speed) ==
    /\ ~effect.made
    /\ effect' = [made |-> TRUE, EasingFunc |-> easingFunc, Time |-> Epsilon, Target |-> One,
                  Duration |-> duration, Speed |-> speed, loop |-> FALSE, paused |-> FALSE,
                  value |-> 0]
    /\ last' = [fn |-> "NewEffect"]
    /\ UNCHANGED <<masterVars, multiVars, fadeVars, fix, gl, uni, config, manager, metro, now,
                   log, panicked>>

\* Effect.Update(deltaTime, value)
EffectUpdate(deltaTime) ==
    /\ effect.made
    /\ IF effect.paused
       THEN /\ last' = [fn |-> "Update", deltaTime |-> deltaTime, ret |-> effect.value]
            /\ UNCHANGED effect
       ELSE LET time == effect.Time + (deltaTime * effect.Speed) \div 100
                eased == EasingFunc(effect.EasingFunc, time)
                bounded == IF eased > effect.Target THEN effect.Target ELSE eased
                value == IF bounded < 0 THEN 0 ELSE bounded
                over == time > effect.Duration
                updated ==
                    [effect EXCEPT
                        !.Time = IF ~over THEN time
                                 ELSE IF effect.loop THEN time - effect.Duration
                                 ELSE effect.Duration - Epsilon,
                        !.paused = over /\ ~effect.loop,
                        !.value = IF over /\ ~effect.loop THEN One ELSE value]
            IN /\ effect' = updated
               /\ last' = [fn |-> "Update", deltaTime |-> deltaTime, ret |-> updated.value]
    /\ UNCHANGED <<masterVars, multiVars, fadeVars, fix, gl, uni, config, manager, metro, now,
                   log, panicked>>

NextEase ==
    \/ \E easingFunc \in {"Linear", "InOutQuart"}, duration \in {One, 3 * One},
          speed \in {20, 100} : NewEasingEffect(easingFunc, duration, speed)
    \/ \E deltaTime \in {DeltaFPS40, 2 * DeltaFPS40} : EffectUpdate(deltaTime)

SpecEase == InitStep /\ [][NextEase]_vars

\* ================================================= the loop of legacy/engine
\* SpecLoop: a HaloLoop from New, its caller calling Start, Stop, Restart and
\* SetTickRate one after the other, and the startLoop goroutines. A startLoop
\* goroutine is a record of its ticker: ticking (the ticker has not been
\* stopped) and tick (a tick waits in the ticker's channel, which holds one)

\* how many startLoop goroutines the caller starts at most
MaxLoops == 3

\* engine.New
New(tickRate) ==
    /\ ~gl.made
    /\ gl' = [made |-> TRUE, tickRate |-> tickRate, loops |-> << >>, caller |-> "idle",
              stopped |-> FALSE]
    /\ last' = [fn |-> "New"]
    /\ UNCHANGED <<masterVars, multiVars, fadeVars, effect, fix, uni, config, manager, metro,
                   now, log, panicked>>

\* what `go gl.startLoop()` adds: a goroutine with a running ticker
startLoop == [ticking |-> TRUE, tick |-> FALSE, tickRate |-> gl.tickRate]

\* HaloLoop.Start
Start ==
    /\ gl.made
    /\ gl.caller = "idle"
    /\ Len(gl.loops) < MaxLoops
    /\ gl' = [gl EXCEPT !.loops = Append(@, startLoop), !.stopped = FALSE]
    /\ last' = [fn |-> "Start"]
    /\ UNCHANGED <<masterVars, multiVars, fadeVars, effect, fix, uni, config, manager, metro,
                   now, log, panicked>>

\* HaloLoop.Stop up to its send on the unbuffered gl.quit, where it waits for a
\* receiver
Stop ==
    /\ gl.made
    /\ gl.caller = "idle"
    /\ gl' = [gl EXCEPT !.caller = "Stop"]
    /\ last' = [fn |-> "Stop", returned |-> FALSE]
    /\ UNCHANGED <<masterVars, multiVars, fadeVars, effect, fix, uni, config, manager, metro,
                   now, log, panicked>>

\* HaloLoop.Restart up to the send of its Stop
Restart ==
    /\ gl.made
    /\ gl.caller = "idle"
    /\ Len(gl.loops) < MaxLoops
    /\ gl' = [gl EXCEPT !.caller = "Restart"]
    /\ last' = [fn |-> "Restart", returned |-> FALSE]
    /\ UNCHANGED <<masterVars, multiVars, fadeVars, effect, fix, uni, config, manager, metro,
                   now, log, panicked>>

\* HaloLoop.SetTickRate: set the rate, then Restart up to the send of its Stop
SetTickRate(tickRate) ==
    /\ gl.made
    /\ gl.caller = "idle"
    /\ Len(gl.loops) < MaxLoops
    /\ gl' = [gl EXCEPT !.tickRate = tickRate, !.caller = "Restart"]
    /\ last' = [fn |-> "SetTickRate", returned |-> FALSE]
    /\ UNCHANGED <<masterVars, multiVars, fadeVars, effect, fix, uni, config, manager, metro,
                   now, log, panicked>>

\* the ticker of goroutine i fires: the tick goes into its channel unless one
\* waits there already
LoopTick(i) ==
    /\ gl.made
    /\ i \in 1..Len(gl.loops)
    /\ gl.loops[i].ticking
    /\ ~gl.loops[i].tick
    /\ gl' = [gl EXCEPT !.loops[i].tick = TRUE]
    /\ UNCHANGED <<masterVars, multiVars, fadeVars, effect, fix, last, uni, config, manager,
                   metro, now, log, panicked>>

\* startLoop, case <-ticker.C of goroutine i: gl.onUpdate(delta)
LoopUpdate(i) ==
    /\ gl.made
    /\ i \in 1..Len(gl.loops)
    /\ gl.loops[i].tick
    /\ gl' = [gl EXCEPT !.loops[i].tick = FALSE]
    /\ last' = [fn |-> "onUpdate", loop |-> i, afterStop |-> gl.stopped]
    /\ UNCHANGED <<masterVars, multiVars, fadeVars, effect, fix, uni, config, manager, metro,
                   now, log, panicked>>

\* startLoop, case <-gl.quit of goroutine i: the send of the waiting Stop is taken
\* and ticker.Stop() runs; the for loop goes on to its next select. Stop returns,
\* and in Restart Start follows
LoopQuit(i) ==
    /\ gl.made
    /\ gl.caller \in {"Stop", "Restart"}
    /\ i \in 1..Len(gl.loops)
    /\ IF gl.caller = "Stop"
       THEN gl' = [gl EXCEPT !.loops[i].ticking = FALSE, !.caller = "idle", !.stopped = TRUE]
       ELSE gl' = [gl EXCEPT !.loops = Append([@ EXCEPT ![i].ticking = FALSE], startLoop),
                             !.caller = "idle", !.stopped = FALSE]
    /\ last' = [last EXCEPT !.returned = TRUE]
    /\ UNCHANGED <<masterVars, multiVars, fadeVars, effect, fix, uni, config, manager, metro,
                   now, log, panicked>>

NextLoop ==
    \/ \E tickRate \in {25, 40} : New(tickRate)
    \/ Start
    \/ Stop
    \/ Restart
    \/ \E tickRate \in {25, 40} : SetTickRate(tickRate)
    \/ \E i \in 1..MaxLoops : LoopTick(i)
    \/ \E i \in 1..MaxLoops : LoopUpdate(i)
    \/ \E i \in 1..MaxLoops : LoopQuit(i)

SpecLoop == InitStep /\ [][NextLoop]_vars

\* ================================================================ claims
SeqToSet(q) == {q[i] : i \in 1..Len(q)}

\* the byte a universe holds on a channel; what was never written is 0
ByteAt(us, universe, channel) ==
    IF universe \in DOMAIN us /\ channel \in DOMAIN us[universe]
    THEN us[universe][channel] ELSE 0

\* C1: at most one cue of the console's list is active at a time; a second one
\* only inside the crossfade window that the go on the newest cue opened, which
\* lasts that cue's FadeTime
C1_AtMostOneActiveCue ==
    Len(activeCues) > 1 =>
        /\ Len(activeCues) = 2
        /\ sinceGo < activeCues[Len(activeCues)].FadeTime

\* the Status fields a cue ID carries anywhere in a cue list
StatusesOf(id, cs, ac, pr) ==
    {c.Status : c \in {d \in SeqToSet(cs) \cup SeqToSet(pr)
                                \cup (IF ac = NoCue THEN {} ELSE {ac}) : d.ID = id}}

StatusRank(sts) ==
    CASE sts = {} -> 0
      [] sts = {statusEnqueued} -> 1
      [] sts = {statusActive} -> 2
      [] sts = {statusProcessed} -> 3
      [] OTHER -> -1

\* C2: in every step a cue's status stays or moves one place forward along
\* enqueued, active, processed; the queue holds enqueued cues, the active slot an
\* active cue, the processed history processed cues; and a processed cue is in
\* the processed history from then on
C2_StatusMovesForward ==
    [][/\ \A id \in ActionIDs :
            LET r == StatusRank(StatusesOf(id, Cues, ActiveCue, ProcessedCues))
                rn == StatusRank(StatusesOf(id, Cues', ActiveCue', ProcessedCues'))
            IN /\ rn \in {r, r + 1}
               /\ r = 3 => rn = 3
               /\ rn = 3 => \E c \in SeqToSet(ProcessedCues') : c.ID = id
       /\ \A c \in SeqToSet(Cues') : c.Status = statusEnqueued
       /\ ActiveCue' # NoCue => ActiveCue'.Status = statusActive
       /\ \A c \in SeqToSet(ProcessedCues') : c.Status = statusProcessed
      ]_vars

\* C2 witness: one cue is in the processed history while the next one is active
C2_Witness ==
    /\ Len(ProcessedCues) > 0
    /\ ActiveCue # NoCue
    /\ ActiveCue.ID > ProcessedCues[1].ID

C4_FadeEndsAtTarget ==
    (fade.pc = "done" /\ fade.target.Duration > 0) =>
        LET u == PatchedFixtures[fade.fixture].Universe
            at(attr) == ByteAt(universes, u, getChannelIDForAttributes(fade.fixture, attr))
            near(a, b) == a - b \in -1..1
        IN /\ near(at(ChannelTypeIntensity), fade.target.Intensity)
           /\ near(at(ChannelTypeRed), fade.target.RGB[1])
           /\ near(at(ChannelTypeGreen), fade.target.RGB[2])
           /\ near(at(ChannelTypeBlue), fade.target.RGB[3])

\* a step of the SetState goroutine of action id
StepOf(id) == id \in DOMAIN ss /\ (id \notin DOMAIN ss' \/ ss'[id] # ss[id])

\* C5: tracking: a step of a SetState call whose target names no colour (its
\* State literal leaves RGB out) keeps the colour the fixture had from earlier
\* cues, in the fixture state and in the DMX bytes
C5_TrackingKeepsColour ==
    [][\A id \in ActionIDs :
          (StepOf(id) /\ ss[id].target.RGB = RGBBlack) =>
              LET f == ss[id].fixture
                  u == PatchedFixtures[f].Universe
              IN /\ states'[f].RGB = states[f].RGB
                 /\ \A attr \in {ChannelTypeRed, ChannelTypeGreen, ChannelTypeBlue} :
                        ByteAt(universes', u, getChannelIDForAttributes(f, attr))
                            = ByteAt(universes, u, getChannelIDForAttributes(f, attr))
      ]_vars

\* C6: the later write wins: once the SetState of a later action has written the
\* red channel of a fixture, the SetState of an earlier action does not write a
\* different value into it
C6_LaterWriteWins ==
    [][\A id \in ActionIDs :
          (StepOf(id) /\ ss[id].call = "rgb" /\ ss[id].opi = 0) =>
              ~\E later \in DOMAIN ss :
                  /\ later > id
                  /\ ss[later].fixture = ss[id].fixture
                  /\ ss[later].call \in {"stateRGB", "position", "stateFinal"}
                  /\ ss[later].target.RGB[1] # ss[id].target.RGB[1]
      ]_vars

\* C7: the output loop's read of a universe never overlaps a write: while the
\* worker is sending a universe's slice, no DMXState.set call is under way
C7_ReadNeverOverlapsWrite == workerpc = "send" => dmxLock = Unlocked

\* C8: once the output loop has exited, the last frame sent on every universe
\* that was ever sent is all zeros
C8_BlackoutBeforeExit ==
    workerpc = "exit" => \A u \in DOMAIN sent : sent[u] = ZeroFrame

\* C9: after shutdown has been requested no step adds a cue to the list or takes
\* an ID from the master
C9_NoEnqueueAfterShutdown ==
    [][ctxDone => (Len(Cues') <= Len(Cues) /\ currentID' = currentID)]_vars

\* C10: the console never panics on what it is given at run time
C10_NeverPanics == ~panicked

\* the channels of a universe whose byte a step changes
ChangedChannels(universe) ==
    {c \in 0..(UniverseChannels + 1) :
        ByteAt(universes', universe, c) # ByteAt(universes, universe, c)}

\* the channels the profile of a fixture maps, and the fixture's footprint:
\* as many channels from its address on as its profile has
MappedChannels(f) ==
    {getChannelIDForAttributes(f, attr) :
        attr \in DOMAIN FixtureProfiles[PatchedFixtures[f].Profile]}
Footprint(f) ==
    {c \in 1..UniverseChannels :
        /\ c >= PatchedFixtures[f].Address
        /\ c < PatchedFixtures[f].Address
               + Cardinality(DOMAIN FixtureProfiles[PatchedFixtures[f].Profile])}

\* an entry the loggers got at warning level or above
Surfaced(entries) == \E e \in entries : e.level \in {"warning", "error"}

\* C11: every channel at which a universe of the DMX state holds a written byte
\* lies in 1..512, and the channels of a dmx.Universe never go past 512
C11_WritesLandInsideUniverse ==
    /\ \A u \in DOMAIN universes : DOMAIN universes[u] \subseteq 1..UniverseChannels
    /\ Len(uni.Channels) <= UniverseChannels

\* a SetDMXState call wrote 255 to the last channel the code accepts and was
\* then handed 255 for the channel after the end of the universe
C11_Witness ==
    /\ last.fn = "SetDMXState"
    /\ Len(last.ops) = 2
    /\ last.ops[1] = dmxOperation(1, DMXChannels, 255)
    /\ last.ops[2] = dmxOperation(1, UniverseChannels + 1, 255)
    /\ ByteAt(universes, 1, DMXChannels) = 255

\* C12: when Fixture.SetState has made a write to a channel outside 1..512, the
\* failure has reached a logger at warning level or above
C12_OutOfRangeWriteSurfaced ==
    (/\ last.fn = "SetState"
     /\ \E op \in SeqToSet(setIntensityToStateAndDMX(last.fixture, last.target.Intensity)
                           \o blindlySetRGBToStateAndDMX(last.fixture, last.target.RGB)
                           \o setPositionToStateAndDMX(last.fixture, last.target.Pan,
                                                       last.target.Tilt)) :
            op.channel \notin 1..UniverseChannels)
    => Surfaced(log)

\* C13: a SetDMXState call with one operation on a channel in 1..512 returns no
\* error, leaves the byte of its value at that channel and changes no other
\* byte of the universe
C13_WriteInRangeSucceeds ==
    [][(/\ last'.fn = "SetDMXState"
        /\ Len(last'.ops) = 1
        /\ last'.ops[1].channel \in 1..UniverseChannels)
       => /\ last'.err = "nil"
          /\ ByteAt(universes', last'.ops[1].universe, last'.ops[1].channel)
                = last'.ops[1].value
          /\ ChangedChannels(last'.ops[1].universe) \subseteq {last'.ops[1].channel}]_vars

\* C14: a Fixture.SetState call on a fixture whose profile does not map an
\* attribute of the target (pan and tilt on a dimmer and colour profile)
\* changes no byte outside the channels the profile maps, and a warning reaches
\* the log
C14_UnmappedAttributeWarnsAndWritesNothing ==
    [][(/\ last'.fn = "SetState"
        /\ {ChannelTypePan, ChannelTypeTilt}
              \ DOMAIN FixtureProfiles[PatchedFixtures[last'.fixture].Profile] # {})
       => /\ ChangedChannels(PatchedFixtures[last'.fixture].Universe)
                \subseteq MappedChannels(last'.fixture)
          /\ Surfaced(log')]_vars

\* C15: every byte a Fixture.SetState call changes lies in the footprint of
\* its fixture and in 1..512, and in no other fixture's footprint
C15_WritesStayInFootprint ==
    [][last'.fn = "SetState"
       => /\ ChangedChannels(PatchedFixtures[last'.fixture].Universe)
                \subseteq Footprint(last'.fixture)
          /\ \A g \in FixtureNames \ {last'.fixture} :
                PatchedFixtures[g].Universe = PatchedFixtures[last'.fixture].Universe
                => ChangedChannels(PatchedFixtures[g].Universe) \cap Footprint(g) = {}]_vars

\* the channels a patched fixture takes
PatchFootprint(x) == {c \in 1..UniverseChannels :
                         c >= x.Address /\ c < x.Address + ProfileModes[x.Profile]}

\* C17: NewManager called with a patch in which two fixtures have the same name
\* returns an error and no manager
C17_DuplicateNameIsAnError ==
    (/\ manager.called
     /\ \E i, j \in 1..Len(config) : i # j /\ config[i].Name = config[j].Name)
    => manager.nil /\ manager.err # "nil"

\* NewManager has refused the patch of TestDuplicateFixtures
C17_Witness ==
    /\ manager.called
    /\ config = <<PatchedFixture("fixture1", 0, 0, ""), PatchedFixture("fixture1", 0, 0, "")>>
    /\ manager.nil
    /\ manager.err = "duplicate fixtures found!"

\* C18: a manager that NewManager returned holds no two fixtures of one universe
\* whose channels overlap
C18_OverlapIsRejected ==
    (manager.called /\ ~manager.nil) =>
        \A a, b \in DOMAIN manager.items :
            (a # b /\ manager.items[a].Universe = manager.items[b].Universe)
            => PatchFootprint(manager.items[a]) \cap PatchFootprint(manager.items[b]) = {}

\* C16: a frame action that names a fixture the manager cannot resolve is skipped
\* with a log entry naming it, it starts no SetState and leaves the other actions
\* of its frame as they were; every action whose fixture resolves has its
\* SetState started with its own target, whatever the other actions named
C16_UnknownFixtureSkippedOthersDriven ==
    [][\A id \in DOMAIN pfa :
          (pfa[id].pc = "start" /\ id \in DOMAIN pfa' /\ pfa'[id].pc = "sleep") =>
              IF GetByName(pfa[id].FixtureName) = "nil"
              THEN /\ CannotFindFixture(pfa[id].FixtureName) \in log'
                   /\ ss' = ss
                   /\ \A k \in DOMAIN pfa \ {id} : k \in DOMAIN pfa' /\ pfa'[k] = pfa[k]
              ELSE /\ id \in DOMAIN ss'
                   /\ ss'[id].fixture = pfa[id].FixtureName
                   /\ ss'[id].target = pfa[id].NewState]_vars

\* the unknown fixture of a frame has been logged and skipped, and the SetState
\* of the patched fixture of the same frame is running
C16_Witness ==
    \E k \in DOMAIN pfa, id \in DOMAIN ss :
        /\ GetByName(pfa[k].FixtureName) = "nil"
        /\ pfa[k].pc = "sleep"
        /\ CannotFindFixture(pfa[k].FixtureName) \in log
        /\ id = k + 1
        /\ ss[id].fixture = "left_middle_par"

\* two phases, each as whole 60000ths and millionths of one, less than 1e-9
\* apart: less than 60 millionths of a 60000th
PhaseClose(p, q) ==
    \/ p[1] = q[1] /\ p[2] - q[2] \in -59..59
    \/ p[1] = q[1] + 1 /\ q[2] - p[2] > Millisecond - 60
    \/ q[1] = p[1] + 1 /\ p[2] - q[2] > Millisecond - 60

\* C19: a SetTempo call leaves the beat number at the instant of the call as it
\* was, and the beat phase at that instant within 1e-9 of what it was
C19_SetTempoKeepsBeatAndPhase ==
    [][(last'.fn = "SetTempo" /\ now' = now)
       => /\ markerNumber(now, metro'.startTime, metro'.tempo)
                = markerNumber(now, metro.startTime, metro.tempo)
          /\ PhaseClose(markerPhase(now, metro'.startTime, metro'.tempo),
                        markerPhase(now, metro.startTime, metro.tempo))]_vars

\* C20: a SetTempo call with a tempo below 20 or above 400 leaves the tempo and
\* the start time of the metronome as they were
C20_TempoOutOfRangeRejected ==
    [][(last'.fn = "SetTempo" /\ now' = now /\ last'.bpm \notin 20..400)
       => metro' = metro]_vars

\* C21: a cue of the master's list becomes the active cue only in a step of
\* CueList.Go; in every other step a queued cue stays queued
C21_CueStartsOnlyOnGo ==
    [][(ActiveCue' # ActiveCue /\ ActiveCue' # NoCue) => CueListGo]_vars

\* C22: a go of the console while a cue is active moves that cue to the
\* processed cues and leaves the head of the pending cues as the one active cue
C22_GoReplacesCurrentCue ==
    [][(pendingCues' # pendingCues /\ Len(activeCues) > 0)
       => /\ activeCues' = <<Head(pendingCues)>>
          /\ processedCues' = processedCues \o activeCues]_vars

\* C23: while a cue with a non-zero follow time is active and a next cue waits in
\* the list, the clock never passes the cue's start plus its follow time: the
\* next cue is started at that instant
C23_FollowTimeStartsNextCue ==
    [][(/\ ActiveCue # NoCue
        /\ ActiveCue' = ActiveCue
        /\ ActiveCue.FollowTime # 0
        /\ Len(Cues) > 0
        /\ now - ActiveCue.StartedAt <= Millisecond * ActiveCue.FollowTime)
       => now' - ActiveCue.StartedAt <= Millisecond * ActiveCue.FollowTime]_vars

C25_FadeValueInterpolatesFromPrev ==
    [][(fade.pc = "loop" /\ fade.numSteps > 1 /\ fade'.x = fade.x + 1)
       => LET n == fade.numSteps - 1
              prev == fade.currentState.Intensity
              target == fade.target.Intensity
          IN fade'.intVal = (2 * (prev * n + (target - prev) * fade.x) + n) \div (2 * n)]_vars

\* C26: every recalculation of an effect with a step offset n, other than 0 and
\* the size of the group, leaves as targets one window of the group: n fixtures
\* that follow one another in the group's order (the first after the last), all
\* of them fixtures of the group, and does not panic
C26_TargetsAreOneWindow ==
    [][(effect.made /\ effect' # effect)
       => /\ ~panicked'
          /\ LET names == effect'.FixtureNames
                 n == effect'.StepOffset
                 t == effect'.targetFixtureNames
             IN /\ Len(t) = n
                /\ \E k \in 1..Len(names) :
                      \A j \in 1..n : t[j] = names[((k - 1 + j - 1) % Len(names)) + 1]]_vars

\* C27: two traversals of the fixtures of one manager, one straight after the
\* other, hand out the fixture names in the same order
C27_TraversalOrderIsStable ==
    [][(last.fn = "GetFixtureNames" /\ last'.fn = "GetFixtureNames")
       => last'.names = last.names]_vars

\* C28: the range of a tick of SendDMXWorker leaves off only when SendDmx has
\* been called for every universe, whichever of the calls returned an error,
\* and the worker then waits for its next tick
C28_SendErrorStopsNothing ==
    [][(workerpc = "range" /\ workerpc' # "range")
       => /\ workerpc' = "select"
          /\ last.calls = DOMAIN universes]_vars

\* the second tick is through: a send failed in it, every universe was tried,
\* and a universe whose send went well has its frame at the client
C28_Witness ==
    /\ workerpc = "select"
    /\ last.n = 2
    /\ last.failed # {}
    /\ last.calls = DOMAIN universes
    /\ \E u \in last.calls \ last.failed : u \in DOMAIN sent /\ sent[u] = universes[u]

\* C29: after SetIntensity, SetColor or SetColorFromHex the fixture needs an
\* update, after HasUpdated it does not, until the next setter
C29_SettersMarkDirty ==
    /\ last.fn \in {"SetIntensity", "SetColor", "SetColorFromHex"} => NeedsUpdate
    /\ last.fn = "HasUpdated" => ~NeedsUpdate

\* C30: after a SetDMXState call with one operation that returned no error the
\* channel holds the value brought into 0..255: 255 for a value above 255, 0
\* for a value below 0
C30_WrittenValueIsClamped ==
    (/\ last.fn = "SetDMXState"
     /\ Len(last.ops) = 1
     /\ last.err = "nil")
    => ByteAt(universes, last.ops[1].universe, last.ops[1].channel)
          = (IF last.ops[1].value > 255 THEN 255
             ELSE IF last.ops[1].value < 0 THEN 0 ELSE last.ops[1].value)

\* C31: the beat interval times the tempo is 60000 ms: the interval is 500 ms
\* for a metronome fresh from NewMetronome and, after a SetTempo call, 60000 ms
\* divided by the tempo of the call (468.75 ms after SetTempo(128))
C31_BeatIntervalFollowsTempo ==
    /\ GetBeatInterval * metro.tempo = 60000 * 1000
    /\ last.fn = "none" => GetBeatInterval = 500 * 1000
    /\ last.fn = "SetTempo" => GetBeatInterval * last.bpm = 60000 * 1000
    /\ (last.fn = "SetTempo" /\ last.bpm = 128) => GetBeatInterval = 468750

\* SetTempo(128) was called some time after NewMetronome and the interval is
\* 468.75 ms
C31_Witness ==
    /\ last.fn = "SetTempo"
    /\ last.bpm = 128
    /\ now > 0
    /\ GetBeatInterval = 468750

C33_NoDequeueAfterCancel ==
    [][ctxDone => /\ Len(Cues') >= Len(Cues)
                  /\ (ActiveCue' = ActiveCue \/ ActiveCue' = NoCue)]_vars

\* the calls and goroutines that were counted on the WaitGroup with Add and have
\* not yet run their deferred Done: ProcessCueList, SendDMXWorker, the running
\* ProcessCue, its ProcessFrame calls that have not returned, and every
\* ProcessFrameAction goroutine
wgOutstanding ==
    (IF clpc = "exit" THEN 0 ELSE 1)
    + (IF workerpc = "exit" THEN 0 ELSE 1)
    + (IF clpc = "cue"
       THEN 1 + Len(ActiveCue.Frames) - (IF frameIdx > 2 THEN frameIdx - 2 ELSE 0)
       ELSE 0)
    + Cardinality(DOMAIN pfa)

\* C34: the WaitGroup counter always equals the number of counted goroutines and
\* calls that have not yet done their Done, so it is never negative and no Done
\* comes without its Add; Run returns from wg.Wait only at counter zero, with
\* the cue-list processor and the DMX sender ended and no cue, frame or action
\* worker left; and once the context is cancelled Run does return
C34_WaitGroupBalancedAndWaitReturns ==
    /\ [](/\ wg >= 0
          /\ wg = wgOutstanding
          /\ mainDone => /\ wg = 0
                         /\ clpc = "exit" /\ workerpc = "exit"
                         /\ DOMAIN pfa = {} /\ ActiveCue = NoCue)
    /\ (ctxDone ~> mainDone)

\* Run has returned from wg.Wait after cues with frame actions were processed
C34_Witness ==
    /\ mainDone
    /\ wg = 0
    /\ Len(ProcessedCues) > 0
    /\ \E i \in 1..Len(ProcessedCues) : Len(ProcessedCues[i].Frames) > 0

\* C35: when Run has returned from wg.Wait no SetState goroutine started by a
\* frame action is still running, and none holds the lock of the DMX state
C35_NoSetStateRunningAfterWait ==
    mainDone => (DOMAIN ss = {} /\ dmxLock = Unlocked)

\* what EnQueueCue put on the list, without the fields ProcessCueList writes
enqueuedAs(c) == [ID |-> c.ID, Frames |-> c.Frames]

\* the cues of the list in the order they pass through it
cueOrder(processed, active, queued) ==
    LET all == processed \o (IF active = NoCue THEN << >> ELSE <<active>>) \o queued
    IN [i \in 1..Len(all) |-> enqueuedAs(all[i])]

allIDs ==
    LET all == ProcessedCues \o (IF ActiveCue = NoCue THEN << >> ELSE <<ActiveCue>>) \o Cues
        RECURSIVE collect(_)
        collect(i) == IF i > Len(all) THEN << >> ELSE IDSlots(all[i]) \o collect(i + 1)
    IN collect(1)

\* C37: the IDs of the enqueued cues, of their frames and of their frame actions
\* are pairwise distinct, whether the master handed them out or the caller
\* supplied one
C37_IDsPairwiseDistinct ==
    \A i, j \in 1..Len(allIDs) : i # j => allIDs[i] # allIDs[j]

\* C38: a SetDMXState call that returns an error (one of its operations was
\* rejected) has changed nothing of the DMX state, whatever the position of the
\* rejected operation among the operations of the call
C38_SetDMXStateAllOrNothing ==
    [][(last'.fn = "SetDMXState" /\ last'.err # "nil") => universes' = universes]_vars

\* C39: a HaloLoop never has more than one startLoop goroutine; once Stop has
\* returned no startLoop goroutine is left and onUpdate is not called until the
\* next Start; and when Restart or SetTickRate has returned exactly one
\* goroutine exists and its ticker runs
C39_AtMostOneLoop ==
    gl.made =>
        /\ Len(gl.loops) <= 1
        /\ gl.stopped => gl.loops = << >>
        /\ last.fn = "onUpdate" => ~last.afterStop
        /\ (last.fn \in {"Restart", "SetTickRate"} /\ last.returned)
              => (Len(gl.loops) = 1 /\ gl.loops[1].ticking)

====
